---- MODULE Spec2Model ----
(***************************************************************************)
(* A model of the AI Brief Refiner bot: the brief session state machine    *)
(* (services/brief_session.py), the handlers that drive it (main.py), the  *)
(* missing-fields keyboard (utils/keyboards.py) and the retrying gateway   *)
(* (services/openai_client.py).                                            *)
(*                                                                         *)
(* Python strings are modelled as sequences of one-character strings, so   *)
(* that slicing, splitting and stripping are computed and not assumed.     *)
(* Field names, step names and display names are TLA+ strings.  Russian    *)
(* literals of the source are transliterated to ASCII.                     *)
(***************************************************************************)
EXTENDS Integers, Sequences, FiniteSets, TLC

VARIABLES
    sessions,   \* BriefSessionManager._sessions: user -> BriefSession or NoSession
    heap,       \* the BriefData objects, by identity
    tasks,      \* handler coroutines suspended at an await
    now,        \* the wall clock read by datetime.now()
    rendered,   \* the brief_data dict of the last generate_tz_docx call
    reply,      \* the last message the bot sent
    lastOp,     \* the registry operation applied last, and the status it found
    gw,         \* one OpenAIClient._retry_with_backoff call
    limiter,    \* the RateLimiter singleton
    index,      \* the VectorStoreManager, its snapshot file and the corpus directories
    states      \* UserStateManager._states: user -> UserState

sessVars == <<sessions, heap, tasks, now, rendered, reply, lastOp>>
auxVars == <<limiter, index, states>>
vars == <<sessions, heap, tasks, now, rendered, reply, lastOp, gw, limiter, index, states>>

(***************************************************************************)
(* Bounds of the model                                                     *)
(***************************************************************************)
MaxTasks == 1       \* generations in flight at once
MaxChats == 1       \* text turns in flight at once
MaxMedia == 1       \* voice and photo turns in flight at once
MaxTime == 2        \* clock ticks
MaxList == 2        \* entries an API call sequence puts into one list
MaxAdmitted == 2    \* messages the limiter admits per window where it is not the subject
MaxMsgs == 2        \* free-text messages per session object
MaxCalls == 2       \* gateway calls in one behaviour

Users == {"u1", "u2"}
ObjIds == 1 .. (Cardinality(Users) + MaxTasks)
\* the coroutines standing at an await: generate_final_tz, then handle_text,
\* then handle_voice and handle_photo
GenIds == 1 .. MaxTasks
ChatIds == (MaxTasks + 1) .. (MaxTasks + MaxChats)
MediaIds == (MaxTasks + MaxChats + 1) .. (MaxTasks + MaxChats + MaxMedia)
TaskIds == GenIds \cup ChatIds \cup MediaIds
\* the heap address of the BriefData class object
ClassObj == 0
\* the heap addresses of the list objects a caller of the registry keeps
CallerLists == {Cardinality(Users) + MaxTasks + 1}

NoSession == [status |-> "none"]
NoTask == [pc |-> "free"]
NoRender == [called |-> FALSE]

(***************************************************************************)
(* Python string operations                                                *)
(***************************************************************************)
Min(a, b) == IF a < b THEN a ELSE b

\* s[:n]
Take(s, n) == SubSeq(s, 1, Min(n, Len(s)))

\* c in s
Contains(s, c) == \E i \in 1 .. Len(s) : s[i] = c

\* the characters str.strip() removes and \s matches, those str.isspace()
\* holds for; a character TLA+ has no escape for is named by its Python escape
Whitespace ==
    {" ", "\t", "\n", "\r", "\f", "\\x0b", "\\x1c", "\\x1d", "\\x1e", "\\x1f", "\\x85", "\\xa0",
     "\\u1680", "\\u2000", "\\u2001", "\\u2002", "\\u2003", "\\u2004", "\\u2005", "\\u2006",
     "\\u2007", "\\u2008", "\\u2009", "\\u200a", "\\u2028", "\\u2029", "\\u202f", "\\u205f",
     "\\u3000"}

RECURSIVE lstrip(_)
lstrip(s) == IF s = <<>> THEN s
             ELSE IF Head(s) \in Whitespace THEN lstrip(Tail(s)) ELSE s

RECURSIVE rstrip(_)
rstrip(s) == IF s = <<>> THEN s
             ELSE IF s[Len(s)] \in Whitespace THEN rstrip(SubSeq(s, 1, Len(s) - 1)) ELSE s

\* s.strip()
strip(s) == rstrip(lstrip(s))

\* s.split(c) for a one-character separator
RECURSIVE split(_, _)
split(s, c) ==
    IF ~Contains(s, c) THEN <<s>>
    ELSE LET i == CHOOSE k \in 1 .. Len(s) : s[k] = c /\ \A j \in 1 .. (k - 1) : s[j] # c
         IN <<SubSeq(s, 1, i - 1)>> \o split(SubSeq(s, i + 1, Len(s)), c)

\* [f.strip() for f in parts if f.strip()]
RECURSIVE strip_nonempty(_)
strip_nonempty(parts) ==
    IF parts = <<>> THEN <<>>
    ELSE LET f == strip(Head(parts))
         IN (IF f # <<>> THEN <<f>> ELSE <<>>) \o strip_nonempty(Tail(parts))

(***************************************************************************)
(* BriefData (services/brief_session.py)                                   *)
(***************************************************************************)
ScalarFields == {"project_name", "project_goal", "target_audience", "project_type",
                 "platform", "content_ready", "deadline", "budget_range",
                 "stakeholders", "communication_format", "llm_analysis"}

ListFields == {"must_have_features", "nice_to_have_features", "integrations",
               "references", "constraints", "deliverables", "acceptance_criteria",
               "risks", "open_questions", "raw_messages"}

DataFields == ScalarFields \cup ListFields

\* the two lists of the class body: one object each, shared by every instance
ClassLists == {"REQUIRED_FIELDS", "RECOMMENDED_FIELDS"}

Methods == {"get_missing_required", "get_missing_recommended", "is_valid_for_generation",
            "get_completion_percent", "to_summary", "to_dict"}

\* the names object and @dataclass give every instance
Inherited == {"__annotations__", "__class__", "__dataclass_fields__", "__dataclass_params__",
              "__delattr__", "__dict__", "__dir__", "__doc__", "__eq__", "__format__",
              "__ge__", "__getattribute__", "__getstate__", "__gt__", "__hash__",
              "__init__", "__init_subclass__", "__le__", "__lt__", "__match_args__",
              "__module__", "__ne__", "__new__", "__reduce__", "__reduce_ex__",
              "__repr__", "__setattr__", "__sizeof__", "__str__", "__subclasshook__",
              "__weakref__"}

\* the names hasattr(data, key) holds for
Attributes == DataFields \cup ClassLists \cup Methods \cup Inherited

\* what setattr(data, key, value) raises for a str or a list value
setattr_raises(key) ==
    IF key \in {"__class__", "__dict__"} THEN "TypeError"
    ELSE IF key = "__weakref__" THEN "AttributeError"
    ELSE "none"

NoAttrs == [k \in {} |-> <<>>]

\* BriefData(): every scalar "" and every list [] (a fresh list per object).
\* own holds the instance attributes that are no field, lists the names of
\* the instance attributes whose value is a list, refs the names whose
\* value is a list object a caller handed in and keeps (name -> object)
BriefData ==
    [f \in DataFields \cup {"own", "lists", "refs"} |->
        IF f \in {"own", "refs"} THEN NoAttrs ELSE IF f = "lists" THEN ListFields ELSE <<>>]

REQUIRED_FIELDS == << <<"project_goal", "tsel proekta">>,
                      <<"project_type", "tip proekta">>,
                      <<"platform", "platforma">> >>

RECOMMENDED_FIELDS == << <<"deadline", "sroki">>,
                         <<"budget_range", "byudzhet">>,
                         <<"deliverables", "ozhidaemye rezultaty">>,
                         <<"must_have_features", "osnovnoy funktsional">> >>

\* the class object, as the class body leaves it
BriefDataClass == [REQUIRED_FIELDS |-> REQUIRED_FIELDS, RECOMMENDED_FIELDS |-> RECOMMENDED_FIELDS]

\* the instance has an attribute of that name in its own __dict__
HasOwn(d, key) == key \in DataFields \/ key \in DOMAIN d.own

Own(d, key) == IF key \in DataFields THEN d[key] ELSE d.own[key]

\* isinstance(getattr(data, key), list)
IsList(d, key) == IF HasOwn(d, key) THEN key \in d.lists ELSE key \in ClassLists

\* setattr(data, key, value), for a key setattr accepts: the attribute is
\* bound to the object given, which is a str, a list nobody else holds
\* (obj = {}) or the list object obj names
setattr(d, key, value, isList, obj) ==
    LET lists == IF isList THEN d.lists \cup {key} ELSE d.lists \ {key}
        own == d.own
        names == (DOMAIN d.refs \ {key}) \cup (IF obj = {} THEN {} ELSE {key})
        refs == [k \in names |-> IF k = key THEN CHOOSE L \in obj : TRUE ELSE d.refs[k]]
    IN IF key \in DataFields
       THEN [d EXCEPT ![key] = value, !.lists = lists, !.refs = refs]
       ELSE [d EXCEPT !.own = [k \in DOMAIN own \cup {key} |-> IF k = key THEN value ELSE own[k]],
                      !.lists = lists, !.refs = refs]

\* what iterating self.<name> yields: the elements of a list, or the
\* characters of a str the instance holds under that name
Items(c, d, name) ==
    IF name \in DOMAIN d.own
    THEN IF name \in d.lists THEN d.own[name]
         ELSE [i \in 1 .. Len(d.own[name]) |-> <<d.own[name][i]>>]
    ELSE c[name]

\* self.REQUIRED_FIELDS + self.RECOMMENDED_FIELDS raises for a list and a str
Addable(d) == ("REQUIRED_FIELDS" \in DOMAIN d.own /\ "REQUIRED_FIELDS" \notin d.lists)
              <=> ("RECOMMENDED_FIELDS" \in DOMAIN d.own /\ "RECOMMENDED_FIELDS" \notin d.lists)

\* "for field_name, display_name in items" unpacks every item: a pair, or a
\* str of two characters
Unpackable(items) == \A i \in 1 .. Len(items) : Len(items[i]) = 2

\* not value or (isinstance(value, list) and len(value) == 0)
IsEmptyValue(value) == value = <<>>

\* the inherited names whose value is None: @dataclass with eq sets __hash__
\* to None, and no weak reference is held
NoneAttrs == {"__hash__", "__weakref__"}

\* the test above on getattr(self, field_name, None)
IsMissing(c, d, field_name) ==
    IF HasOwn(d, field_name) THEN IsEmptyValue(Own(d, field_name))
    ELSE IF field_name \in ClassLists THEN IsEmptyValue(c[field_name])
    ELSE field_name \notin Attributes \/ field_name \in NoneAttrs

RECURSIVE missing_of(_, _, _)
missing_of(c, d, fields) ==
    IF fields = <<>> THEN <<>>
    ELSE (IF IsMissing(c, d, Head(fields)[1]) THEN <<Head(fields)>> ELSE <<>>)
         \o missing_of(c, d, Tail(fields))

\* the outcome of calling a method: the exception it raises, or its value
Returns(value) == [exc |-> "none", value |-> value]
Raises(exc) == [exc |-> exc, value |-> <<>>]

\* data.<method>() when the instance holds a str or a list under that name
Callable(d, method) == method \notin DOMAIN d.own

missing_when_called(c, d, method, items) ==
    IF ~Callable(d, method) THEN Raises("TypeError")
    ELSE IF ~Unpackable(items) THEN Raises("ValueError")
    ELSE Returns(missing_of(c, d, items))

get_missing_required(c, d) ==
    missing_when_called(c, d, "get_missing_required", Items(c, d, "REQUIRED_FIELDS"))

get_missing_recommended(c, d) ==
    missing_when_called(c, d, "get_missing_recommended", Items(c, d, "RECOMMENDED_FIELDS"))

\* len(self.get_missing_required()) == 0
is_valid_for_generation(c, d) ==
    IF ~Callable(d, "is_valid_for_generation") THEN Raises("TypeError")
    ELSE LET missing == get_missing_required(c, d)
         IN IF missing.exc # "none" THEN missing ELSE Returns(Len(missing.value) = 0)

\* int((filled / len(all_fields)) * 100)
get_completion_percent(c, d) ==
    LET all_fields == Items(c, d, "REQUIRED_FIELDS") \o Items(c, d, "RECOMMENDED_FIELDS")
        filled == Cardinality({i \in 1 .. Len(all_fields) : ~IsMissing(c, d, all_fields[i][1])})
    IN IF ~Callable(d, "get_completion_percent") \/ ~Addable(d) THEN Raises("TypeError")
       ELSE IF ~Unpackable(all_fields) THEN Raises("ValueError")
       ELSE IF Len(all_fields) = 0 THEN Raises("ZeroDivisionError")
       ELSE Returns((filled * 100) \div Len(all_fields))

\* BriefData.to_dict(): every field, the lists by reference
to_dict(d) ==
    IF ~Callable(d, "to_dict") THEN Raises("TypeError")
    ELSE Returns([f \in DataFields |-> d[f]])

(***************************************************************************)
(* BriefSession and BriefSessionManager (services/brief_session.py).       *)
(* A store st = [s |-> sessions, h |-> heap, exc |-> exception] is         *)
(* threaded through the methods; each returns the store it leaves and the  *)
(* exception it raised ("none" when it returned).  heap[ClassObj] is the   *)
(* BriefData class, every other entry an instance.                         *)
(***************************************************************************)
HasSession(S, u) == S[u].status # "none"

SessionRefs(S) == {S[u].data : u \in {v \in Users : HasSession(S, v)}}

\* the objects the generate_final_tz coroutines hold as brief_data
TaskRefs(T) == {T[t].brief_data : t \in {k \in GenIds : T[k].pc # "free"}}

\* the identity of a newly constructed BriefData: an object nobody else holds
NewObj(S, T, u) ==
    LET held == SessionRefs([S EXCEPT ![u] = NoSession]) \cup TaskRefs(T)
    IN CHOOSE o \in ObjIds \ held : \A p \in ObjIds \ held : o <= p

\* BriefSession(user_id=user_id)
BriefSession(o) ==
    [status |-> "idle", data |-> o, created_at |-> now, updated_at |-> now,
     current_step |-> "start"]

get_session(st, u) ==
    IF HasSession(st.s, u) THEN st
    ELSE LET o == NewObj(st.s, tasks, u)
         IN [st EXCEPT !.s[u] = BriefSession(o), !.h[o] = BriefData]

start_keep_data(st, u) ==
    [st EXCEPT !.s[u].status = "collecting",
               !.s[u].created_at = now,
               !.s[u].updated_at = now,
               !.s[u].current_step = "project_type"]

\* BriefSession.start
start(st, u) ==
    LET o == NewObj(st.s, tasks, u)
    IN [st EXCEPT !.s[u].status = "collecting",
                  !.s[u].data = o,
                  !.s[u].created_at = now,
                  !.s[u].updated_at = now,
                  !.s[u].current_step = "project_type",
                  !.h[o] = BriefData]

\* BriefSession.cancel
cancel(st, u) ==
    LET o == NewObj(st.s, tasks, u)
    IN [st EXCEPT !.s[u].status = "idle",
                  !.s[u].data = o,
                  !.s[u].current_step = "start",
                  !.h[o] = BriefData]

\* the instance d with the list items under every name of names
write_all(d, names, items) ==
    [f \in DOMAIN d |->
        IF f \in names THEN items
        ELSE IF f = "own" THEN [k \in DOMAIN d.own |-> IF k \in names THEN items ELSE d.own[k]]
        ELSE d[f]]

\* current.append(value) or current.extend(values) on the list getattr(data, key)
\* gives: a list a caller keeps, which shows under every name bound to it,
\* the instance's own list, or the list of the class
extend_attr(h, o, key, values) ==
    IF ~HasOwn(h[o], key) THEN [h EXCEPT ![ClassObj][key] = @ \o values]
    ELSE IF key \in DOMAIN h[o].refs
    THEN LET L == h[o].refs[key]
             items == h[L].items \o values
         IN [p \in DOMAIN h |->
               IF p = L THEN [items |-> items]
               ELSE IF p \in ObjIds
               THEN write_all(h[p], {k \in DOMAIN h[p].refs : h[p].refs[k] = L}, items)
               ELSE h[p]]
    ELSE IF key \in DataFields THEN [h EXCEPT ![o][key] = @ \o values]
    ELSE [h EXCEPT ![o].own[key] = @ \o values]

\* BriefSession.add_message: a str has no append
add_message(st, u, text) ==
    LET o == st.s[u].data
    IN IF "raw_messages" \notin st.h[o].lists
       THEN [st EXCEPT !.exc = "AttributeError"]
       ELSE [st EXCEPT !.h = extend_attr(@, o, "raw_messages", <<text>>), !.s[u].updated_at = now]

\* BriefSession.is_active
is_active(st, u) == st.s[u].status = "collecting"

\* BriefSession.mark_ready
mark_ready(st, u) ==
    LET valid == is_valid_for_generation(st.h[ClassObj], st.h[st.s[u].data])
    IN IF valid.exc # "none" THEN [st EXCEPT !.exc = valid.exc]
       ELSE IF valid.value THEN [st EXCEPT !.s[u].status = "ready"]
       ELSE st

start_session(st, u) == start(get_session(st, u), u)

\* the store cancel_session leaves (its result is HasSession before the call)
cancel_session(st, u) == IF HasSession(st.s, u) THEN cancel(st, u) ELSE st

\* the list a caller of the registry made, L = ['x'], and keeps
CallerList == [items |-> << <<"x">> >>]

\* the heap at start-up: the class as its body leaves it, no instance in
\* use, and the caller's list
NewHeap ==
    [o \in {ClassObj} \cup ObjIds \cup CallerLists |->
        IF o = ClassObj THEN BriefDataClass ELSE IF o \in ObjIds THEN BriefData ELSE CallerList]

\* an argument of a call: a str or a list nobody else holds, by its value,
\* or the list object L the caller keeps
Str(value) == [value |-> value, isList |-> FALSE, obj |-> {}]
List(value) == [value |-> value, isList |-> TRUE, obj |-> {}]
Held(L) == [value |-> <<>>, isList |-> TRUE, obj |-> {L}]

\* what the argument holds when it is used
ArgValue(h, arg) == IF arg.obj = {} THEN arg.value ELSE h[CHOOSE L \in arg.obj : TRUE].items

\* key=value of **kwargs
Kw(key, arg) == [key |-> key, arg |-> arg]

\* the names a keyword argument cannot have: Python binds them to the
\* parameters of the method and raises TypeError before the body runs
ParamNames == {"self", "user_id"}

\* one round of the loop over kwargs.items()
update_item(g, o, key, arg) ==
    LET value == ArgValue(g.h, arg)
    IN IF key \notin Attributes THEN g
       ELSE IF IsList(g.h[o], key)
       THEN [g EXCEPT !.h = extend_attr(@, o, key, IF arg.isList THEN value ELSE <<value>>)]
       ELSE IF setattr_raises(key) # "none" THEN [g EXCEPT !.exc = setattr_raises(key)]
       ELSE [g EXCEPT !.h[o] = setattr(@, key, value, arg.isList, arg.obj)]

RECURSIVE update_items(_, _, _)
update_items(g, o, kwargs) ==
    IF kwargs = <<>> \/ g.exc # "none" THEN g
    ELSE update_items(update_item(g, o, Head(kwargs).key, Head(kwargs).arg), o, Tail(kwargs))

\* update_brief_data(user_id, **kwargs), kwargs in the order of the call
update_brief_data(st, u, kwargs) ==
    IF \E i \in 1 .. Len(kwargs) : kwargs[i].key \in ParamNames
    THEN [st EXCEPT !.exc = "TypeError"]
    ELSE LET g == get_session(st, u)
             done == update_items(g, g.s[u].data, kwargs)
         IN IF done.exc # "none" THEN done ELSE [done EXCEPT !.s[u].updated_at = now]

set_brief_field(st, u, field_name, arg) ==
    LET g == get_session(st, u)
        o == g.s[u].data
    IN IF field_name \notin Attributes THEN g
       ELSE IF setattr_raises(field_name) # "none" THEN [g EXCEPT !.exc = setattr_raises(field_name)]
       ELSE [g EXCEPT !.h[o] = setattr(@, field_name, ArgValue(g.h, arg), arg.isList, arg.obj),
                      !.s[u].updated_at = now]

add_to_list_field(st, u, field_name, value) ==
    LET g == get_session(st, u)
        o == g.s[u].data
    IN IF field_name \in Attributes /\ IsList(g.h[o], field_name)
       THEN [g EXCEPT !.h = extend_attr(@, o, field_name, <<value>>), !.s[u].updated_at = now]
       ELSE g

(***************************************************************************)
(* OpenAIClient._retry_with_backoff (services/openai_client.py).           *)
(* Delays are in units of the base delay's second.                         *)
(***************************************************************************)
API_MAX_RETRIES == 3
API_RETRY_DELAY == 1

\* how the remote API can answer one request: with the completion, with HTTP
\* 429 for a rate limit or for an exhausted quota, with HTTP 400 or 401, not
\* at all; other is a failure inside the client
Results == {"ok", "rate_limited", "quota", "bad_request", "unauthorized", "disconnected", "other"}

\* the except clause of _retry_with_backoff a result is caught by.  The
\* imported classes are those of the client library: it raises RateLimitError
\* for every HTTP 429, whatever its reason, BadRequestError for 400 and
\* AuthenticationError for 401, both of them APIError, and APIConnectionError
\* for a request that got no answer
except_clause(result) ==
    CASE result = "ok" -> "ok"
      [] result \in {"rate_limited", "quota"} -> "RateLimitError"
      [] result = "disconnected" -> "APIConnectionError"
      [] result \in {"bad_request", "unauthorized"} -> "APIError"
      [] result = "other" -> "Exception"

\* the except classes that sleep and go on to the next attempt
Transient == {"RateLimitError", "APIConnectionError"}

GatewayOps == {"chat_completion", "transcribe_audio", "analyze_image"}

RECURSIVE Pow2(_)
Pow2(n) == IF n = 0 THEN 1 ELSE 2 * Pow2(n - 1)

\* OpenAIClient.__init__ with config.API_MAX_RETRIES = n
NewClient(n) ==
    [pc |-> "idle", op |-> "none", max_retries |-> n, retry_delay |-> API_RETRY_DELAY,
     attempt |-> 0, results |-> <<>>, outcomes |-> <<>>, waits |-> <<>>, error |-> "none", raised |-> 0,
     calls |-> 0, exc |-> "none", prev |-> [error |-> "none", exc |-> "none"]]

reraise_last(cause) == cause

\* the class of the exception a raise statement of the wrapper throws to the
\* caller, whatever was caught: raise OpenAIError(...)
raised_type(cause) == "OpenAIError"

in_range_inclusive(g) == g.attempt <= g.max_retries

\* for attempt in range(self.max_retries)
in_range(g) == g.attempt < g.max_retries

wait_time_linear(g) == g.retry_delay * (g.attempt + 1)

\* self.retry_delay * (2 ** attempt)
wait_time(g) == g.retry_delay * Pow2(g.attempt)

sleep_forever(g) == g

\* asyncio.sleep(wait_time) returned: the for loop takes its next attempt
after_sleep(g) == [g EXCEPT !.pc = "loop", !.waits = Append(@, wait_time(g)), !.attempt = @ + 1]

(***************************************************************************)
(* RateLimiter (services/rate_limiter.py).  Times are whole seconds.       *)
(***************************************************************************)
RATE_LIMIT_MESSAGES == 10
RATE_LIMIT_WINDOW == 60

\* RateLimiter(max_requests, window_seconds); 0 stands for None, and
\* "x or default" takes the default for both
RateLimiter(max_requests, window_seconds) ==
    [max_requests |-> IF max_requests = 0 THEN RATE_LIMIT_MESSAGES ELSE max_requests,
     window_seconds |-> IF window_seconds = 0 THEN RATE_LIMIT_WINDOW ELSE window_seconds,
     requests |-> [u \in Users |-> <<>>],
     last |-> [u \in Users |-> [checked |-> FALSE]],
     admitted |-> [u \in Users |-> <<>>]]

keep_all(requests, window_start) == requests

\* [t for t in self._requests[user_id] if t > window_start]
recent(requests, window_start) == SelectSeq(requests, LAMBDA t : t > window_start)

over_limit(n, max_requests) == n > max_requests

\* len(self._requests[user_id]) >= self.max_requests
at_limit(n, max_requests) == n >= max_requests

\* a check that stores its time whether it is admitted or not
is_allowed_recording_rejections(rl, user_id, current_time) ==
    LET window_start == current_time - rl.window_seconds
        kept == recent(rl.requests[user_id], window_start)
        allowed == ~at_limit(Len(kept), rl.max_requests)
    IN [allowed |-> allowed,
        rl |-> [rl EXCEPT !.requests[user_id] = Append(kept, current_time),
                          !.last[user_id] = [checked |-> TRUE, time |-> current_time, allowed |-> allowed],
                          !.admitted[user_id] = IF allowed THEN Append(@, current_time) ELSE @]]

\* RateLimiter.is_allowed at time current_time: the answer and the limiter it
\* leaves.  last and admitted record the check for the properties: the time
\* and answer of the user's last check, and the times of the admitted ones,
\* both since the user's list was last deleted by reset.
is_allowed(rl, user_id, current_time) ==
    LET window_start == current_time - rl.window_seconds
        kept == recent(rl.requests[user_id], window_start)
        allowed == ~at_limit(Len(kept), rl.max_requests)
    IN [allowed |-> allowed,
        rl |-> [rl EXCEPT !.requests[user_id] = IF allowed THEN Append(kept, current_time) ELSE kept,
                          !.last[user_id] = [checked |-> TRUE, time |-> current_time, allowed |-> allowed],
                          !.admitted[user_id] = IF allowed THEN Append(@, current_time) ELSE @]]

\* RateLimiter.reset: the user's list is deleted, and with it what last and
\* admitted recorded of the checks that filled it
reset(rl, user_id) ==
    [rl EXCEPT !.requests[user_id] = <<>>,
               !.last[user_id] = [checked |-> FALSE],
               !.admitted[user_id] = <<>>]

\* RateLimiter.get_reset_time at time current_time
get_reset_time(rl, user_id, current_time) ==
    IF rl.requests[user_id] = <<>> THEN 0
    ELSE LET r == rl.requests[user_id]
             oldest_request == CHOOSE t \in {r[i] : i \in 1 .. Len(r)} :
                                  \A i \in 1 .. Len(r) : t <= r[i]
             reset_time == oldest_request + rl.window_seconds - current_time
         IN IF reset_time > 0 THEN reset_time ELSE 0

(***************************************************************************)
(* UserState and UserStateManager (utils/helpers.py): the conversation     *)
(* history of each user.  Every access goes through init_user, which       *)
(* creates the state it does not find, so a user without an entry is       *)
(* written as the state init_user would create.                            *)
(***************************************************************************)
MAX_HISTORY_LENGTH == 20

\* UserState(user_id): mode and conversation_history at their defaults
UserState == [mode |-> "text", conversation_history |-> <<>>]

\* UserStateManager(), read through init_user
UserStateManager == [u \in Users |-> UserState]

\* s[-n:] for n > 0
Last(s, n) == SubSeq(s, Len(s) - Min(n, Len(s)) + 1, Len(s))

\* UserState.add_message; timestamp is datetime.now()
state_add_message(state, role, content, timestamp) ==
    LET conversation_history ==
            Append(state.conversation_history,
                   [role |-> role, content |-> content, timestamp |-> timestamp])
    IN [state EXCEPT !.conversation_history =
            IF Len(conversation_history) > MAX_HISTORY_LENGTH
            THEN Last(conversation_history, MAX_HISTORY_LENGTH)
            ELSE conversation_history]

\* UserState.get_messages_for_api
get_messages_for_api(state) ==
    [i \in 1 .. Len(state.conversation_history) |->
        [role |-> state.conversation_history[i].role,
         content |-> state.conversation_history[i].content]]

\* UserStateManager.get_history
get_history(S, user_id) == get_messages_for_api(S[user_id])

\* the modes MessageRouter tells apart
Modes == {"text", "rag"}

\* UserStateManager.set_mode
set_mode(S, user_id, mode) == [S EXCEPT ![user_id].mode = mode]

\* UserStateManager.clear_history
clear_history(S, user_id) == [S EXCEPT ![user_id].conversation_history = <<>>]

\* UserStateManager.add_message called on its own: one message, of any role
UserStateAddMessage(u, role, content) ==
    /\ Len(states[u].conversation_history) < MaxList
    /\ states' = [states EXCEPT ![u] = state_add_message(@, role, content, now)]
    /\ UNCHANGED <<sessVars, gw, limiter, index>>

\* a turn that keeps the user's message and drops the reply
record_exchange_user_only(S, user_id, text, response, timestamp) ==
    [S EXCEPT ![user_id] = state_add_message(@, "user", text, timestamp)]

\* handle_text after chat_completion returned: the two
\* user_state_manager.add_message calls
record_exchange(S, user_id, text, response, timestamp) ==
    [S EXCEPT ![user_id] = state_add_message(state_add_message(@, "user", text, timestamp),
                                             "assistant", response, timestamp)]

(***************************************************************************)
(* VectorStoreManager (rag/vectorstore.py).  A file is a record of its     *)
(* name, whether open/read succeeds, and its content; a directory is a     *)
(* record of whether it exists and its listing in os.listdir order.        *)
(***************************************************************************)
RAG_CHUNK_SIZE == 500

\* s.startswith(prefix)
StartsWith(s, prefix) == Len(s) >= Len(prefix) /\ SubSeq(s, 1, Len(prefix)) = prefix

\* s.split(sep) for a separator of any length
RECURSIVE split_on(_, _)
split_on(s, sep) ==
    IF \E i \in 1 .. Len(s) : StartsWith(SubSeq(s, i, Len(s)), sep)
    THEN LET i == CHOOSE k \in 1 .. Len(s) :
                    /\ StartsWith(SubSeq(s, k, Len(s)), sep)
                    /\ \A j \in 1 .. (k - 1) : ~StartsWith(SubSeq(s, j, Len(s)), sep)
         IN <<SubSeq(s, 1, i - 1)>> \o split_on(SubSeq(s, i + Len(sep), Len(s)), sep)
    ELSE <<s>>

\* s.replace(old, new), for a non-empty old: occurrence by occurrence, from the
\* left
RECURSIVE replace(_, _, _)
replace(s, old, new) ==
    IF \E i \in 1 .. Len(s) : StartsWith(SubSeq(s, i, Len(s)), old)
    THEN LET i == CHOOSE k \in 1 .. Len(s) :
                    /\ StartsWith(SubSeq(s, k, Len(s)), old)
                    /\ \A j \in 1 .. (k - 1) : ~StartsWith(SubSeq(s, j, Len(s)), old)
         IN SubSeq(s, 1, i - 1) \o new \o replace(SubSeq(s, i + Len(old), Len(s)), old, new)
    ELSE s

\* The Cyrillic letters, written with two Latin characters each, in the order
\* of the alphabet: "b_" is one character, the letter be; "B_" is its capital.
CyrillicUpper == <<"A_", "B_", "V_", "G_", "D_", "E_", "YO", "ZH", "Z_", "I_", "J_", "K_", "L_", "M_", "N_", "O_", "P_",
                   "R_", "S_", "T_", "U_", "F_", "H_", "C_", "CH", "SH", "SC", "QQ", "Y_", "Q_", "EH", "YU", "YA">>
CyrillicLower == <<"a_", "b_", "v_", "g_", "d_", "e_", "yo", "zh", "z_", "i_", "j_", "k_", "l_", "m_", "n_", "o_", "p_",
                   "r_", "s_", "t_", "u_", "f_", "h_", "c_", "ch", "sh", "sc", "qq", "y_", "q_", "eh", "yu", "ya">>

\* Any other character is named by its Python escape, "\\xe9", "\\u212a" or
\* "\\U0001f600", and so is an ASCII control character that has no escape in
\* a TLA+ string, and the grave accent U+0060, which a TLA+ string cannot hold.
\* AsciiNames are the names of U+0000 .. U+007F, in order.
AsciiNames ==
    <<"\\x00", "\\x01", "\\x02", "\\x03", "\\x04", "\\x05", "\\x06", "\\x07", "\\x08", "\t", "\n", "\\x0b", "\f", "\r", "\\x0e", "\\x0f",
      "\\x10", "\\x11", "\\x12", "\\x13", "\\x14", "\\x15", "\\x16", "\\x17", "\\x18", "\\x19", "\\x1a", "\\x1b", "\\x1c", "\\x1d", "\\x1e", "\\x1f",
      " ", "!", "\"", "#", "$", "%", "&", "'", "(", ")", "*", "+", ",", "-", ".", "/",
      "0", "1", "2", "3", "4", "5", "6", "7", "8", "9", ":", ";", "<", "=", ">", "?",
      "@", "A", "B", "C", "D", "E", "F", "G", "H", "I", "J", "K", "L", "M", "N", "O",
      "P", "Q", "R", "S", "T", "U", "V", "W", "X", "Y", "Z", "[", "\\", "]", "^", "_",
      "\\x60", "a", "b", "c", "d", "e", "f", "g", "h", "i", "j", "k", "l", "m", "n", "o",
      "p", "q", "r", "s", "t", "u", "v", "w", "x", "y", "z", "{", "|", "}", "~", "\\x7f">>

\* the code points of the Russian letters, in the order of the alphabet: yo
\* (U+0401, U+0451) stands outside U+0410 .. U+044F
CyrillicUpperOrd == [k \in 1 .. Len(CyrillicUpper) |-> IF k = 7 THEN 1025 ELSE IF k < 7 THEN 1039 + k ELSE 1038 + k]
CyrillicLowerOrd == [k \in 1 .. Len(CyrillicLower) |-> IF k = 7 THEN 1105 ELSE IF k < 7 THEN 1071 + k ELSE 1070 + k]

\* the characters with a name of their own, and their code points
Named == AsciiNames \o CyrillicUpper \o CyrillicLower
NamedOrd == [k \in 1 .. Len(AsciiNames) |-> k - 1] \o CyrillicUpperOrd \o CyrillicLowerOrd

OrdOf == [c \in {Named[k] : k \in 1 .. Len(Named)} |-> NamedOrd[CHOOSE k \in 1 .. Len(Named) : Named[k] = c]]
ChrOf == [n \in {NamedOrd[k] : k \in 1 .. Len(Named)} |-> Named[CHOOSE k \in 1 .. Len(Named) : NamedOrd[k] = n]]

HexDigits == <<"0", "1", "2", "3", "4", "5", "6", "7", "8", "9", "a", "b", "c", "d", "e", "f">>
HexCapitals == <<"0", "1", "2", "3", "4", "5", "6", "7", "8", "9", "A", "B", "C", "D", "E", "F">>

\* int(d, 16) for one digit
hex_digit(d) == (CHOOSE k \in 1 .. 16 : HexDigits[k] = d \/ HexCapitals[k] = d) - 1

\* int(digits, 16), digits being a sequence of digits
RECURSIVE int_hex(_, _)
int_hex(digits, n) ==
    IF Len(digits) = 0 THEN n ELSE int_hex(Tail(digits), 16 * n + hex_digit(Head(digits)))

\* the digits of an escape: the characters of the name after "\\x", "\\u", "\\U"
RECURSIVE escape_digits(_)
escape_digits(name) == IF Len(name) = 0 THEN <<>> ELSE <<Head(name)>> \o escape_digits(Tail(name))

\* ord(c)
ord(c) ==
    IF Len(c) <= 2 THEN OrdOf[c] ELSE int_hex(escape_digits(Tail(Tail(c))), 0)

\* n as a string of that many hexadecimal digits
RECURSIVE hex(_, _)
hex(n, digits) == IF digits = 0 THEN "" ELSE hex(n \div 16, digits - 1) \o HexDigits[(n % 16) + 1]

\* chr(n)
chr(n) ==
    IF n < 128 \/ n = 1025 \/ (1040 <= n /\ n <= 1103) \/ n = 1105 THEN ChrOf[n]
    ELSE IF n < 256 THEN "\\x" \o hex(n, 2)
    ELSE IF n < 65536 THEN "\\u" \o hex(n, 4)
    ELSE "\\U" \o hex(n, 8)

\* range(lo, hi + 1) holds n, for one of the pairs <<lo, hi>>
in_ranges(ranges, n) == \E k \in 1 .. Len(ranges) : ranges[k][1] <= n /\ n <= ranges[k][2]

\* The lower-case mapping of the Unicode database (version 14.0.0, the one of
\* Python 3.11): <<lo, hi, step, delta>> says that the code points lo,
\* lo + step, .. hi become n + delta; every other code point stays.
LowerRuns ==
    <<<<65, 90, 1, 32>>, <<192, 214, 1, 32>>, <<216, 222, 1, 32>>, <<256, 302, 2, 1>>, <<304, 304, 1, -199>>, <<306, 310, 2, 1>>,
      <<313, 327, 2, 1>>, <<330, 374, 2, 1>>, <<376, 376, 1, -121>>, <<377, 381, 2, 1>>, <<385, 385, 1, 210>>, <<386, 388, 2, 1>>,
      <<390, 390, 1, 206>>, <<391, 391, 1, 1>>, <<393, 394, 1, 205>>, <<395, 395, 1, 1>>, <<398, 398, 1, 79>>, <<399, 399, 1, 202>>,
      <<400, 400, 1, 203>>, <<401, 401, 1, 1>>, <<403, 403, 1, 205>>, <<404, 404, 1, 207>>, <<406, 406, 1, 211>>, <<407, 407, 1, 209>>,
      <<408, 408, 1, 1>>, <<412, 412, 1, 211>>, <<413, 413, 1, 213>>, <<415, 415, 1, 214>>, <<416, 420, 2, 1>>, <<422, 422, 1, 218>>,
      <<423, 423, 1, 1>>, <<425, 425, 1, 218>>, <<428, 428, 1, 1>>, <<430, 430, 1, 218>>, <<431, 431, 1, 1>>, <<433, 434, 1, 217>>,
      <<435, 437, 2, 1>>, <<439, 439, 1, 219>>, <<440, 440, 1, 1>>, <<444, 444, 1, 1>>, <<452, 452, 1, 2>>, <<453, 453, 1, 1>>,
      <<455, 455, 1, 2>>, <<456, 456, 1, 1>>, <<458, 458, 1, 2>>, <<459, 475, 2, 1>>, <<478, 494, 2, 1>>, <<497, 497, 1, 2>>,
      <<498, 500, 2, 1>>, <<502, 502, 1, -97>>, <<503, 503, 1, -56>>, <<504, 542, 2, 1>>, <<544, 544, 1, -130>>, <<546, 562, 2, 1>>,
      <<570, 570, 1, 10795>>, <<571, 571, 1, 1>>, <<573, 573, 1, -163>>, <<574, 574, 1, 10792>>, <<577, 577, 1, 1>>, <<579, 579, 1, -195>>,
      <<580, 580, 1, 69>>, <<581, 581, 1, 71>>, <<582, 590, 2, 1>>, <<880, 882, 2, 1>>, <<886, 886, 1, 1>>, <<895, 895, 1, 116>>,
      <<902, 902, 1, 38>>, <<904, 906, 1, 37>>, <<908, 908, 1, 64>>, <<910, 911, 1, 63>>, <<913, 929, 1, 32>>, <<931, 939, 1, 32>>,
      <<975, 975, 1, 8>>, <<984, 1006, 2, 1>>, <<1012, 1012, 1, -60>>, <<1015, 1015, 1, 1>>, <<1017, 1017, 1, -7>>, <<1018, 1018, 1, 1>>,
      <<1021, 1023, 1, -130>>, <<1024, 1039, 1, 80>>, <<1040, 1071, 1, 32>>, <<1120, 1152, 2, 1>>, <<1162, 1214, 2, 1>>, <<1216, 1216, 1, 15>>,
      <<1217, 1229, 2, 1>>, <<1232, 1326, 2, 1>>, <<1329, 1366, 1, 48>>, <<4256, 4293, 1, 7264>>, <<4295, 4295, 1, 7264>>, <<4301, 4301, 1, 7264>>,
      <<5024, 5103, 1, 38864>>, <<5104, 5109, 1, 8>>, <<7312, 7354, 1, -3008>>, <<7357, 7359, 1, -3008>>, <<7680, 7828, 2, 1>>, <<7838, 7838, 1, -7615>>,
      <<7840, 7934, 2, 1>>, <<7944, 7951, 1, -8>>, <<7960, 7965, 1, -8>>, <<7976, 7983, 1, -8>>, <<7992, 7999, 1, -8>>, <<8008, 8013, 1, -8>>,
      <<8025, 8031, 2, -8>>, <<8040, 8047, 1, -8>>, <<8072, 8079, 1, -8>>, <<8088, 8095, 1, -8>>, <<8104, 8111, 1, -8>>, <<8120, 8121, 1, -8>>,
      <<8122, 8123, 1, -74>>, <<8124, 8124, 1, -9>>, <<8136, 8139, 1, -86>>, <<8140, 8140, 1, -9>>, <<8152, 8153, 1, -8>>, <<8154, 8155, 1, -100>>,
      <<8168, 8169, 1, -8>>, <<8170, 8171, 1, -112>>, <<8172, 8172, 1, -7>>, <<8184, 8185, 1, -128>>, <<8186, 8187, 1, -126>>, <<8188, 8188, 1, -9>>,
      <<8486, 8486, 1, -7517>>, <<8490, 8490, 1, -8383>>, <<8491, 8491, 1, -8262>>, <<8498, 8498, 1, 28>>, <<8544, 8559, 1, 16>>, <<8579, 8579, 1, 1>>,
      <<9398, 9423, 1, 26>>, <<11264, 11311, 1, 48>>, <<11360, 11360, 1, 1>>, <<11362, 11362, 1, -10743>>, <<11363, 11363, 1, -3814>>, <<11364, 11364, 1, -10727>>,
      <<11367, 11371, 2, 1>>, <<11373, 11373, 1, -10780>>, <<11374, 11374, 1, -10749>>, <<11375, 11375, 1, -10783>>, <<11376, 11376, 1, -10782>>, <<11378, 11378, 1, 1>>,
      <<11381, 11381, 1, 1>>, <<11390, 11391, 1, -10815>>, <<11392, 11490, 2, 1>>, <<11499, 11501, 2, 1>>, <<11506, 11506, 1, 1>>, <<42560, 42604, 2, 1>>,
      <<42624, 42650, 2, 1>>, <<42786, 42798, 2, 1>>, <<42802, 42862, 2, 1>>, <<42873, 42875, 2, 1>>, <<42877, 42877, 1, -35332>>, <<42878, 42886, 2, 1>>,
      <<42891, 42891, 1, 1>>, <<42893, 42893, 1, -42280>>, <<42896, 42898, 2, 1>>, <<42902, 42920, 2, 1>>, <<42922, 42922, 1, -42308>>, <<42923, 42923, 1, -42319>>,
      <<42924, 42924, 1, -42315>>, <<42925, 42925, 1, -42305>>, <<42926, 42926, 1, -42308>>, <<42928, 42928, 1, -42258>>, <<42929, 42929, 1, -42282>>, <<42930, 42930, 1, -42261>>,
      <<42931, 42931, 1, 928>>, <<42932, 42946, 2, 1>>, <<42948, 42948, 1, -48>>, <<42949, 42949, 1, -42307>>, <<42950, 42950, 1, -35384>>, <<42951, 42953, 2, 1>>,
      <<42960, 42960, 1, 1>>, <<42966, 42968, 2, 1>>, <<42997, 42997, 1, 1>>, <<65313, 65338, 1, 32>>, <<66560, 66599, 1, 40>>, <<66736, 66771, 1, 40>>,
      <<66928, 66938, 1, 39>>, <<66940, 66954, 1, 39>>, <<66956, 66962, 1, 39>>, <<66964, 66965, 1, 39>>, <<68736, 68786, 1, 64>>, <<71840, 71871, 1, 32>>,
      <<93760, 93791, 1, 32>>, <<125184, 125217, 1, 34>>>>

in_run(run, n) == run[1] <= n /\ n <= run[2] /\ (n - run[1]) % run[3] = 0

\* what the runs add to the code point n
run_delta(runs, n) ==
    IF \E k \in 1 .. Len(runs) : in_run(runs[k], n)
    THEN runs[CHOOSE k \in 1 .. Len(runs) : in_run(runs[k], n)][4]
    ELSE 0

\* Py_UNICODE_TOLOWER(n), the mapping to one code point
to_lower(n) == n + run_delta(LowerRuns, n)

\* the code points of the case-ignorable characters
CaseIgnorableRanges ==
    <<<<39, 39>>, <<46, 46>>, <<58, 58>>, <<94, 94>>, <<96, 96>>, <<168, 168>>, <<173, 173>>, <<175, 175>>,
      <<180, 180>>, <<183, 184>>, <<688, 879>>, <<884, 885>>, <<890, 890>>, <<900, 901>>, <<903, 903>>, <<1155, 1161>>,
      <<1369, 1369>>, <<1375, 1375>>, <<1425, 1469>>, <<1471, 1471>>, <<1473, 1474>>, <<1476, 1477>>, <<1479, 1479>>, <<1524, 1524>>,
      <<1536, 1541>>, <<1552, 1562>>, <<1564, 1564>>, <<1600, 1600>>, <<1611, 1631>>, <<1648, 1648>>, <<1750, 1757>>, <<1759, 1768>>,
      <<1770, 1773>>, <<1807, 1807>>, <<1809, 1809>>, <<1840, 1866>>, <<1958, 1968>>, <<2027, 2037>>, <<2042, 2042>>, <<2045, 2045>>,
      <<2070, 2093>>, <<2137, 2139>>, <<2184, 2184>>, <<2192, 2193>>, <<2200, 2207>>, <<2249, 2306>>, <<2362, 2362>>, <<2364, 2364>>,
      <<2369, 2376>>, <<2381, 2381>>, <<2385, 2391>>, <<2402, 2403>>, <<2417, 2417>>, <<2433, 2433>>, <<2492, 2492>>, <<2497, 2500>>,
      <<2509, 2509>>, <<2530, 2531>>, <<2558, 2558>>, <<2561, 2562>>, <<2620, 2620>>, <<2625, 2626>>, <<2631, 2632>>, <<2635, 2637>>,
      <<2641, 2641>>, <<2672, 2673>>, <<2677, 2677>>, <<2689, 2690>>, <<2748, 2748>>, <<2753, 2757>>, <<2759, 2760>>, <<2765, 2765>>,
      <<2786, 2787>>, <<2810, 2815>>, <<2817, 2817>>, <<2876, 2876>>, <<2879, 2879>>, <<2881, 2884>>, <<2893, 2893>>, <<2901, 2902>>,
      <<2914, 2915>>, <<2946, 2946>>, <<3008, 3008>>, <<3021, 3021>>, <<3072, 3072>>, <<3076, 3076>>, <<3132, 3132>>, <<3134, 3136>>,
      <<3142, 3144>>, <<3146, 3149>>, <<3157, 3158>>, <<3170, 3171>>, <<3201, 3201>>, <<3260, 3260>>, <<3263, 3263>>, <<3270, 3270>>,
      <<3276, 3277>>, <<3298, 3299>>, <<3328, 3329>>, <<3387, 3388>>, <<3393, 3396>>, <<3405, 3405>>, <<3426, 3427>>, <<3457, 3457>>,
      <<3530, 3530>>, <<3538, 3540>>, <<3542, 3542>>, <<3633, 3633>>, <<3636, 3642>>, <<3654, 3662>>, <<3761, 3761>>, <<3764, 3772>>,
      <<3782, 3782>>, <<3784, 3789>>, <<3864, 3865>>, <<3893, 3893>>, <<3895, 3895>>, <<3897, 3897>>, <<3953, 3966>>, <<3968, 3972>>,
      <<3974, 3975>>, <<3981, 3991>>, <<3993, 4028>>, <<4038, 4038>>, <<4141, 4144>>, <<4146, 4151>>, <<4153, 4154>>, <<4157, 4158>>,
      <<4184, 4185>>, <<4190, 4192>>, <<4209, 4212>>, <<4226, 4226>>, <<4229, 4230>>, <<4237, 4237>>, <<4253, 4253>>, <<4348, 4348>>,
      <<4957, 4959>>, <<5906, 5908>>, <<5938, 5939>>, <<5970, 5971>>, <<6002, 6003>>, <<6068, 6069>>, <<6071, 6077>>, <<6086, 6086>>,
      <<6089, 6099>>, <<6103, 6103>>, <<6109, 6109>>, <<6155, 6159>>, <<6211, 6211>>, <<6277, 6278>>, <<6313, 6313>>, <<6432, 6434>>,
      <<6439, 6440>>, <<6450, 6450>>, <<6457, 6459>>, <<6679, 6680>>, <<6683, 6683>>, <<6742, 6742>>, <<6744, 6750>>, <<6752, 6752>>,
      <<6754, 6754>>, <<6757, 6764>>, <<6771, 6780>>, <<6783, 6783>>, <<6823, 6823>>, <<6832, 6862>>, <<6912, 6915>>, <<6964, 6964>>,
      <<6966, 6970>>, <<6972, 6972>>, <<6978, 6978>>, <<7019, 7027>>, <<7040, 7041>>, <<7074, 7077>>, <<7080, 7081>>, <<7083, 7085>>,
      <<7142, 7142>>, <<7144, 7145>>, <<7149, 7149>>, <<7151, 7153>>, <<7212, 7219>>, <<7222, 7223>>, <<7288, 7293>>, <<7376, 7378>>,
      <<7380, 7392>>, <<7394, 7400>>, <<7405, 7405>>, <<7412, 7412>>, <<7416, 7417>>, <<7468, 7530>>, <<7544, 7544>>, <<7579, 7679>>,
      <<8125, 8125>>, <<8127, 8129>>, <<8141, 8143>>, <<8157, 8159>>, <<8173, 8175>>, <<8189, 8190>>, <<8203, 8207>>, <<8216, 8217>>,
      <<8228, 8228>>, <<8231, 8231>>, <<8234, 8238>>, <<8288, 8292>>, <<8294, 8303>>, <<8305, 8305>>, <<8319, 8319>>, <<8336, 8348>>,
      <<8400, 8432>>, <<11388, 11389>>, <<11503, 11505>>, <<11631, 11631>>, <<11647, 11647>>, <<11744, 11775>>, <<11823, 11823>>, <<12293, 12293>>,
      <<12330, 12333>>, <<12337, 12341>>, <<12347, 12347>>, <<12441, 12446>>, <<12540, 12542>>, <<40981, 40981>>, <<42232, 42237>>, <<42508, 42508>>,
      <<42607, 42610>>, <<42612, 42621>>, <<42623, 42623>>, <<42652, 42655>>, <<42736, 42737>>, <<42752, 42785>>, <<42864, 42864>>, <<42888, 42890>>,
      <<42994, 42996>>, <<43000, 43001>>, <<43010, 43010>>, <<43014, 43014>>, <<43019, 43019>>, <<43045, 43046>>, <<43052, 43052>>, <<43204, 43205>>,
      <<43232, 43249>>, <<43263, 43263>>, <<43302, 43309>>, <<43335, 43345>>, <<43392, 43394>>, <<43443, 43443>>, <<43446, 43449>>, <<43452, 43453>>,
      <<43471, 43471>>, <<43493, 43494>>, <<43561, 43566>>, <<43569, 43570>>, <<43573, 43574>>, <<43587, 43587>>, <<43596, 43596>>, <<43632, 43632>>,
      <<43644, 43644>>, <<43696, 43696>>, <<43698, 43700>>, <<43703, 43704>>, <<43710, 43711>>, <<43713, 43713>>, <<43741, 43741>>, <<43756, 43757>>,
      <<43763, 43764>>, <<43766, 43766>>, <<43867, 43871>>, <<43881, 43883>>, <<44005, 44005>>, <<44008, 44008>>, <<44013, 44013>>, <<64286, 64286>>,
      <<64434, 64450>>, <<65024, 65039>>, <<65043, 65043>>, <<65056, 65071>>, <<65106, 65106>>, <<65109, 65109>>, <<65279, 65279>>, <<65287, 65287>>,
      <<65294, 65294>>, <<65306, 65306>>, <<65342, 65342>>, <<65344, 65344>>, <<65392, 65392>>, <<65438, 65439>>, <<65507, 65507>>, <<65529, 65531>>,
      <<66045, 66045>>, <<66272, 66272>>, <<66422, 66426>>, <<67456, 67461>>, <<67463, 67504>>, <<67506, 67514>>, <<68097, 68099>>, <<68101, 68102>>,
      <<68108, 68111>>, <<68152, 68154>>, <<68159, 68159>>, <<68325, 68326>>, <<68900, 68903>>, <<69291, 69292>>, <<69446, 69456>>, <<69506, 69509>>,
      <<69633, 69633>>, <<69688, 69702>>, <<69744, 69744>>, <<69747, 69748>>, <<69759, 69761>>, <<69811, 69814>>, <<69817, 69818>>, <<69821, 69821>>,
      <<69826, 69826>>, <<69837, 69837>>, <<69888, 69890>>, <<69927, 69931>>, <<69933, 69940>>, <<70003, 70003>>, <<70016, 70017>>, <<70070, 70078>>,
      <<70089, 70092>>, <<70095, 70095>>, <<70191, 70193>>, <<70196, 70196>>, <<70198, 70199>>, <<70206, 70206>>, <<70367, 70367>>, <<70371, 70378>>,
      <<70400, 70401>>, <<70459, 70460>>, <<70464, 70464>>, <<70502, 70508>>, <<70512, 70516>>, <<70712, 70719>>, <<70722, 70724>>, <<70726, 70726>>,
      <<70750, 70750>>, <<70835, 70840>>, <<70842, 70842>>, <<70847, 70848>>, <<70850, 70851>>, <<71090, 71093>>, <<71100, 71101>>, <<71103, 71104>>,
      <<71132, 71133>>, <<71219, 71226>>, <<71229, 71229>>, <<71231, 71232>>, <<71339, 71339>>, <<71341, 71341>>, <<71344, 71349>>, <<71351, 71351>>,
      <<71453, 71455>>, <<71458, 71461>>, <<71463, 71467>>, <<71727, 71735>>, <<71737, 71738>>, <<71995, 71996>>, <<71998, 71998>>, <<72003, 72003>>,
      <<72148, 72151>>, <<72154, 72155>>, <<72160, 72160>>, <<72193, 72202>>, <<72243, 72248>>, <<72251, 72254>>, <<72263, 72263>>, <<72273, 72278>>,
      <<72281, 72283>>, <<72330, 72342>>, <<72344, 72345>>, <<72752, 72758>>, <<72760, 72765>>, <<72767, 72767>>, <<72850, 72871>>, <<72874, 72880>>,
      <<72882, 72883>>, <<72885, 72886>>, <<73009, 73014>>, <<73018, 73018>>, <<73020, 73021>>, <<73023, 73029>>, <<73031, 73031>>, <<73104, 73105>>,
      <<73109, 73109>>, <<73111, 73111>>, <<73459, 73460>>, <<78896, 78904>>, <<92912, 92916>>, <<92976, 92982>>, <<92992, 92995>>, <<94031, 94031>>,
      <<94095, 94111>>, <<94176, 94177>>, <<94179, 94180>>, <<110576, 110579>>, <<110581, 110587>>, <<110589, 110590>>, <<113821, 113822>>, <<113824, 113827>>,
      <<118528, 118573>>, <<118576, 118598>>, <<119143, 119145>>, <<119155, 119170>>, <<119173, 119179>>, <<119210, 119213>>, <<119362, 119364>>, <<121344, 121398>>,
      <<121403, 121452>>, <<121461, 121461>>, <<121476, 121476>>, <<121499, 121503>>, <<121505, 121519>>, <<122880, 122886>>, <<122888, 122904>>, <<122907, 122913>>,
      <<122915, 122916>>, <<122918, 122922>>, <<123184, 123197>>, <<123566, 123566>>, <<123628, 123631>>, <<125136, 125142>>, <<125252, 125259>>, <<127995, 127999>>,
      <<917505, 917505>>, <<917536, 917631>>, <<917760, 917999>>>>

\* the code points of the cased characters that are not case-ignorable
CasedRanges ==
    <<<<65, 90>>, <<97, 122>>, <<170, 170>>, <<181, 181>>, <<186, 186>>, <<192, 214>>, <<216, 246>>, <<248, 442>>,
      <<444, 447>>, <<452, 659>>, <<661, 687>>, <<880, 883>>, <<886, 887>>, <<891, 893>>, <<895, 895>>, <<902, 902>>,
      <<904, 906>>, <<908, 908>>, <<910, 929>>, <<931, 1013>>, <<1015, 1153>>, <<1162, 1327>>, <<1329, 1366>>, <<1376, 1416>>,
      <<4256, 4293>>, <<4295, 4295>>, <<4301, 4301>>, <<4304, 4346>>, <<4349, 4351>>, <<5024, 5109>>, <<5112, 5117>>, <<7296, 7304>>,
      <<7312, 7354>>, <<7357, 7359>>, <<7424, 7467>>, <<7531, 7543>>, <<7545, 7578>>, <<7680, 7957>>, <<7960, 7965>>, <<7968, 8005>>,
      <<8008, 8013>>, <<8016, 8023>>, <<8025, 8025>>, <<8027, 8027>>, <<8029, 8029>>, <<8031, 8061>>, <<8064, 8116>>, <<8118, 8124>>,
      <<8126, 8126>>, <<8130, 8132>>, <<8134, 8140>>, <<8144, 8147>>, <<8150, 8155>>, <<8160, 8172>>, <<8178, 8180>>, <<8182, 8188>>,
      <<8450, 8450>>, <<8455, 8455>>, <<8458, 8467>>, <<8469, 8469>>, <<8473, 8477>>, <<8484, 8484>>, <<8486, 8486>>, <<8488, 8488>>,
      <<8490, 8493>>, <<8495, 8500>>, <<8505, 8505>>, <<8508, 8511>>, <<8517, 8521>>, <<8526, 8526>>, <<8544, 8575>>, <<8579, 8580>>,
      <<9398, 9449>>, <<11264, 11387>>, <<11390, 11492>>, <<11499, 11502>>, <<11506, 11507>>, <<11520, 11557>>, <<11559, 11559>>, <<11565, 11565>>,
      <<42560, 42605>>, <<42624, 42651>>, <<42786, 42863>>, <<42865, 42887>>, <<42891, 42894>>, <<42896, 42954>>, <<42960, 42961>>, <<42963, 42963>>,
      <<42965, 42969>>, <<42997, 42998>>, <<43002, 43002>>, <<43824, 43866>>, <<43872, 43880>>, <<43888, 43967>>, <<64256, 64262>>, <<64275, 64279>>,
      <<65313, 65338>>, <<65345, 65370>>, <<66560, 66639>>, <<66736, 66771>>, <<66776, 66811>>, <<66928, 66938>>, <<66940, 66954>>, <<66956, 66962>>,
      <<66964, 66965>>, <<66967, 66977>>, <<66979, 66993>>, <<66995, 67001>>, <<67003, 67004>>, <<68736, 68786>>, <<68800, 68850>>, <<71840, 71903>>,
      <<93760, 93823>>, <<119808, 119892>>, <<119894, 119964>>, <<119966, 119967>>, <<119970, 119970>>, <<119973, 119974>>, <<119977, 119980>>, <<119982, 119993>>,
      <<119995, 119995>>, <<119997, 120003>>, <<120005, 120069>>, <<120071, 120074>>, <<120077, 120084>>, <<120086, 120092>>, <<120094, 120121>>, <<120123, 120126>>,
      <<120128, 120132>>, <<120134, 120134>>, <<120138, 120144>>, <<120146, 120485>>, <<120488, 120512>>, <<120514, 120538>>, <<120540, 120570>>, <<120572, 120596>>,
      <<120598, 120628>>, <<120630, 120654>>, <<120656, 120686>>, <<120688, 120712>>, <<120714, 120744>>, <<120746, 120770>>, <<120772, 120779>>, <<122624, 122633>>,
      <<122635, 122654>>, <<125184, 125251>>, <<127280, 127305>>, <<127312, 127337>>, <<127344, 127369>>>>

UpperCase == <<"A", "B", "C", "D", "E", "F", "G", "H", "I", "J", "K", "L", "M",
               "N", "O", "P", "Q", "R", "S", "T", "U", "V", "W", "X", "Y", "Z">> \o CyrillicUpper
LowerCase == <<"a", "b", "c", "d", "e", "f", "g", "h", "i", "j", "k", "l", "m",
               "n", "o", "p", "q", "r", "s", "t", "u", "v", "w", "x", "y", "z">> \o CyrillicLower

\* the capitals among the characters with a name of one or two characters,
\* which are the ASCII characters and the Russian letters
UpperLetters == {UpperCase[k] : k \in 1 .. Len(UpperCase)}

LowerOf == [c \in UpperLetters |-> LowerCase[CHOOSE k \in 1 .. Len(UpperCase) : UpperCase[k] = c]]

\* the place of the nearest character that is not case-ignorable, from place
\* j on in steps of step; 0 when the string ends before one is found
RECURSIVE skip_case_ignorable(_, _, _)
skip_case_ignorable(s, j, step) ==
    IF j < 1 \/ j > Len(s) THEN 0
    ELSE IF in_ranges(CaseIgnorableRanges, ord(s[j])) THEN skip_case_ignorable(s, j + step, step)
    ELSE j

is_cased(s, j) == j # 0 /\ in_ranges(CasedRanges, ord(s[j]))

\* the capital sigma at place i ends a word: a cased character stands before
\* it (step -1) and none after it (step 1), case-ignorable characters skipped
final_sigma(s, i) ==
    \A step \in {-1, 1} : is_cased(s, skip_case_ignorable(s, i + step, step)) <=> step = -1

\* the code points s.lower() makes of the code point n at place i: the
\* capital I with a dot above (U+0130) gives two, the capital sigma (U+03A3)
\* one of two
lower_codes(s, i, n) ==
    IF n = 304 THEN <<105, 775>>
    ELSE IF n = 931 THEN <<IF final_sigma(s, i) THEN 962 ELSE 963>>
    ELSE <<to_lower(n)>>

chrs(codes) == [k \in 1 .. Len(codes) |-> chr(codes[k])]

\* what s.lower() makes of the character at place i
lower_char(s, i) ==
    IF Len(s[i]) <= 2 THEN <<IF s[i] \in UpperLetters THEN LowerOf[s[i]] ELSE s[i]>>
    ELSE chrs(lower_codes(s, i, ord(s[i])))

\* the sequences parts[i], .. parts[j] joined
RECURSIVE join_span(_, _, _)
join_span(parts, i, j) ==
    IF i > j THEN <<>>
    ELSE IF i = j THEN parts[i]
    ELSE join_span(parts, i, (i + j) \div 2) \o join_span(parts, ((i + j) \div 2) + 1, j)

\* s.lower()
lower(s) == join_span([i \in 1 .. Len(s) |-> lower_char(s, i)], 1, Len(s))

\* os.path.splitext(filename)[1]: from the last dot on, unless only dots precede it
splitext(filename) ==
    IF ~Contains(filename, ".") THEN <<>>
    ELSE LET i == CHOOSE k \in 1 .. Len(filename) :
                    filename[k] = "." /\ \A j \in (k + 1) .. Len(filename) : filename[j] # "."
         IN IF \A j \in 1 .. (i - 1) : filename[j] = "." THEN <<>>
            ELSE SubSeq(filename, i, Len(filename))

supported_extensions == {<<".", "t", "x", "t">>, <<".", "m", "d">>}

Digits == <<"0", "1", "2", "3", "4", "5", "6", "7", "8", "9">>

\* str(i) for i >= 0
RECURSIVE str_int(_)
str_int(i) == IF i < 10 THEN <<Digits[i + 1]>> ELSE str_int(i \div 10) \o <<Digits[(i % 10) + 1]>>

\* the loop over the sentences of a paragraph longer than chunk_size;
\* st = [chunks, current_chunk]
RECURSIVE split_sentences(_, _, _)
split_sentences(sentences, st, chunk_size) ==
    IF sentences = <<>> THEN st
    ELSE LET sentence == Head(sentences)
         IN IF Len(st.current_chunk) + Len(sentence) + 1 <= chunk_size
            THEN split_sentences(Tail(sentences),
                     [st EXCEPT !.current_chunk =
                         (IF @ # <<>> THEN @ \o <<" ">> ELSE @) \o sentence],
                     chunk_size)
            ELSE split_sentences(Tail(sentences),
                     [chunks |-> IF st.current_chunk # <<>>
                                 THEN Append(st.chunks, st.current_chunk) ELSE st.chunks,
                      current_chunk |-> sentence],
                     chunk_size)

\* the loop over the paragraphs
RECURSIVE split_paragraphs(_, _, _)
split_paragraphs(paragraphs, st, chunk_size) ==
    IF paragraphs = <<>> THEN st
    ELSE LET para == strip(Head(paragraphs))
             flushed == IF st.current_chunk # <<>>
                        THEN Append(st.chunks, st.current_chunk) ELSE st.chunks
         IN IF para = <<>> THEN split_paragraphs(Tail(paragraphs), st, chunk_size)
            ELSE IF Len(st.current_chunk) + Len(para) + 2 <= chunk_size
            THEN split_paragraphs(Tail(paragraphs),
                     [st EXCEPT !.current_chunk =
                         (IF @ # <<>> THEN @ \o <<"\n", "\n">> ELSE @) \o para],
                     chunk_size)
            ELSE IF Len(para) > chunk_size
            THEN split_paragraphs(Tail(paragraphs),
                     split_sentences(split(replace(para, <<".", " ">>, <<".", "|">>), "|"),
                                     [chunks |-> flushed, current_chunk |-> <<>>], chunk_size),
                     chunk_size)
            ELSE split_paragraphs(Tail(paragraphs),
                     [chunks |-> flushed, current_chunk |-> para], chunk_size)

\* VectorStoreManager._split_text
split_text(text, chunk_size) ==
    LET st == split_paragraphs(split_on(text, <<"\n", "\n">>),
                               [chunks |-> <<>>, current_chunk |-> <<>>], chunk_size)
    IN IF st.current_chunk # <<>> THEN Append(st.chunks, st.current_chunk) ELSE st.chunks

\* the entries index_documents appends for one file
file_documents(filename, chunks) ==
    [i \in 1 .. Len(chunks) |->
        [id |-> filename \o <<"_">> \o str_int(i - 1), content |-> chunks[i], source |-> filename]]

\* what f.read() gives for a file opened in text mode: "\r\n" and "\r" are
\* read as "\n"
RECURSIVE read_text(_)
read_text(content) ==
    IF ~Contains(content, "\r") THEN content
    ELSE LET i == CHOOSE k \in 1 .. Len(content) : content[k] = "\r" /\ \A j \in 1 .. (k - 1) : content[j] # "\r"
             after == IF i < Len(content) /\ content[i + 1] = "\n" THEN i + 2 ELSE i + 1
         IN SubSeq(content, 1, i - 1) \o <<"\n">> \o read_text(SubSeq(content, after, Len(content)))

RECURSIVE scan_files(_, _, _)

abort_on_failed_file(rest, acc, chunk_size) == acc

\* except Exception: continue
skip_failed_file(rest, acc, chunk_size) == scan_files(rest, acc, chunk_size)

\* for filename in os.listdir(data_dir); acc = [documents, files, chunks]
scan_files(listing, acc, chunk_size) ==
    IF listing = <<>> THEN acc
    ELSE LET file == Head(listing)
             rest == Tail(listing)
         IN IF lower(splitext(file.name)) \notin supported_extensions
            THEN scan_files(rest, acc, chunk_size)
            ELSE IF ~file.readable THEN skip_failed_file(rest, acc, chunk_size)
            ELSE IF strip(read_text(file.content)) = <<>> THEN scan_files(rest, acc, chunk_size)
            ELSE LET chunks == split_text(read_text(file.content), chunk_size)
                 IN scan_files(rest,
                        [documents |-> acc.documents \o file_documents(file.name, chunks),
                         files |-> acc.files + 1,
                         chunks |-> acc.chunks + Len(chunks)],
                        chunk_size)

NoSnapshot == [state |-> "absent", documents |-> <<>>]

\* the JSON text of one character of a string (ensure_ascii=False): the
\* quote, the backslash and the control characters below U+0020 are escaped,
\* every other character is written as it is
Backspace == "\\x08"

\* a control character is written as \u00XX, n being its code point
json_control(c, n) ==
    IF n < 32 THEN <<"\\", "u", "0", "0", HexDigits[(n \div 16) + 1], HexDigits[(n % 16) + 1]>> ELSE <<c>>

json_escape_char(c) ==
    IF c = "\"" THEN <<"\\", "\"">>
    ELSE IF c = "\\" THEN <<"\\", "\\">>
    ELSE IF c = "\n" THEN <<"\\", "n">>
    ELSE IF c = "\r" THEN <<"\\", "r">>
    ELSE IF c = "\t" THEN <<"\\", "t">>
    ELSE IF c = "\f" THEN <<"\\", "f">>
    ELSE IF c = Backspace THEN <<"\\", "b">>
    ELSE IF Len(c) = 4 THEN json_control(c, ord(c))
    ELSE <<c>>

\* the least of a set of places, 0 for none
first_place(places) == IF places = {} THEN 0 ELSE CHOOSE k \in places : \A j \in places : k <= j

\* the JSON text of the characters of s, escape by escape: the escapes of
\* s are at the places escaped
RECURSIVE json_escape_at(_, _, _)
json_escape_at(s, escaped, from) ==
    IF first_place(escaped) = 0 THEN SubSeq(s, from, Len(s))
    ELSE SubSeq(s, from, first_place(escaped) - 1) \o json_escape_char(s[first_place(escaped)])
             \o json_escape_at(s, escaped \ {first_place(escaped)}, first_place(escaped) + 1)

json_escape(s) == json_escape_at(s, {k \in 1 .. Len(s) : json_escape_char(s[k]) # <<s[k]>>}, 1)

\* what json.dump writes for a str (ensure_ascii=False): the text in quotes
json_string(s) == <<"\"">> \o json_escape(s) \o <<"\"">>

\* the character an escape \c stands for
json_unescape_char(c) ==
    CASE c = "n" -> "\n"
      [] c = "r" -> "\r"
      [] c = "t" -> "\t"
      [] c = "f" -> "\f"
      [] c = "b" -> Backspace
      [] OTHER -> c

\* the code point of the escape \uXXXX the text t begins with, -1 if it begins
\* with none
json_unicode_escape(t) ==
    IF Len(t) >= 6 /\ t[1] = "\\" /\ t[2] = "u" THEN int_hex(SubSeq(t, 3, 6), 0) ELSE -1

\* code points of the surrogates: the high ones come first in a pair
is_high_surrogate(n) == 55296 <= n /\ n <= 56319
is_low_surrogate(n) == 56320 <= n /\ n <= 57343

\* the characters of the JSON text t, escape by escape
RECURSIVE json_unescape(_)
json_unescape(t) ==
    IF ~Contains(t, "\\") THEN t
    ELSE IF Head(t) # "\\"
    THEN LET i == CHOOSE k \in 1 .. Len(t) : t[k] = "\\" /\ \A j \in 1 .. (k - 1) : t[j] # "\\"
         IN SubSeq(t, 1, i - 1) \o json_unescape(SubSeq(t, i, Len(t)))
    ELSE IF json_unicode_escape(t) >= 0
    THEN LET n == json_unicode_escape(t)
             low == json_unicode_escape(SubSeq(t, 7, Len(t)))
         IN IF is_high_surrogate(n) /\ is_low_surrogate(low)
            THEN <<chr(65536 + (n - 55296) * 1024 + (low - 56320))>> \o json_unescape(SubSeq(t, 13, Len(t)))
            ELSE <<chr(n)>> \o json_unescape(SubSeq(t, 7, Len(t)))
    ELSE IF Len(t) >= 2
    THEN <<json_unescape_char(t[2])>> \o json_unescape(SubSeq(t, 3, Len(t)))
    ELSE t

\* what json.load reads from a string written by json.dump
json_parse_string(t) == json_unescape(SubSeq(t, 2, Len(t) - 1))

\* json.dump(self.documents, f): the list of objects, each value as JSON text
json_dump(documents) ==
    [i \in 1 .. Len(documents) |->
        [id |-> json_string(documents[i].id), content |-> json_string(documents[i].content),
         source |-> json_string(documents[i].source)]]

\* json.load(f)
json_load(written) ==
    [i \in 1 .. Len(written) |->
        [id |-> json_parse_string(written[i].id), content |-> json_parse_string(written[i].content),
         source |-> json_parse_string(written[i].source)]]

\* s.encode("utf-8") succeeds: s holds no surrogate
encodable(s) == \A i \in 1 .. Len(s) : Len(s[i]) # 6 \/ ~(is_high_surrogate(ord(s[i])) \/ is_low_surrogate(ord(s[i])))

\* the documents json.dump writes before the first string the file cannot
\* encode
RECURSIVE written_documents(_)
written_documents(documents) ==
    IF documents = <<>> THEN <<>>
    ELSE IF encodable(Head(documents).id) /\ encodable(Head(documents).content)
            /\ encodable(Head(documents).source)
    THEN <<Head(documents)>> \o written_documents(Tail(documents))
    ELSE <<>>

\* _save_index; outcome tells how the write went: "ok", "open_failed" (the file
\* is untouched) or "write_failed" (the file was truncated and the write broke
\* off before the last document: what is there is not valid JSON).  A write
\* that meets a surrogate breaks off there, whatever the outcome says.
written_file(documents, outcome, written) ==
    IF outcome = "ok"
    THEN [state |-> IF Len(written) = Len(documents) THEN "ok" ELSE "corrupt", documents |-> written]
    ELSE [state |-> "corrupt", documents |-> Take(written, Len(documents) - 1)]

save_index(vs, outcome) ==
    IF outcome = "open_failed" THEN vs.snapshot
    ELSE written_file(vs.documents, outcome, json_dump(written_documents(vs.documents)))

SaveOutcomes == {"ok", "open_failed", "write_failed"}

\* a load that keeps whatever documents the file still holds
load_index_partial(snapshot) == json_load(snapshot.documents)

\* _load_index: the documents of a readable snapshot, else none
load_index(snapshot) == IF snapshot.state = "ok" THEN json_load(snapshot.documents) ELSE <<>>

NoDirectory == [exists |-> FALSE, listing |-> <<>>]

\* VectorStoreManager() with RAG_CHUNK_SIZE = chunk_size, over a file system
\* holding the snapshot and the directories dirs
VectorStoreManager(chunk_size, snapshot, dirs) ==
    [chunk_size |-> chunk_size, documents |-> load_index(snapshot), snapshot |-> snapshot,
     dirs |-> dirs, result |-> [op |-> "none"]]

\* self.documents = [] and the loop gave r: self._save_index() and the
\* statistics returned
rebuilt(vs, data_dir, outcome, r) ==
    [vs EXCEPT !.documents = r.documents,
               !.snapshot = save_index([documents |-> r.documents, snapshot |-> vs.snapshot], outcome),
               !.result = [op |-> "index_documents", data_dir |-> data_dir,
                           listing |-> vs.dirs[data_dir].listing,
                           files |-> r.files, chunks |-> r.chunks, save |-> outcome]]

\* a rebuild that hands control back inside its loop, after the first file
index_documents_yielding(vs, data_dir, outcome) ==
    LET listing == vs.dirs[data_dir].listing
        r == scan_files(IF listing = <<>> THEN <<>> ELSE <<Head(listing)>>,
                        [documents |-> <<>>, files |-> 0, chunks |-> 0], vs.chunk_size)
    IN [vs EXCEPT !.documents = r.documents,
                  !.result = [op |-> "index_documents", data_dir |-> data_dir, listing |-> listing,
                              files |-> r.files, chunks |-> r.chunks, save |-> "none"]]

\* index_documents(data_dir); result records the call: its argument, the
\* listing it scanned, the statistics it returned and how its save went
index_documents(vs, data_dir, outcome) ==
    IF ~vs.dirs[data_dir].exists
    THEN [vs EXCEPT !.dirs[data_dir] = [exists |-> TRUE, listing |-> <<>>],
                    !.result = [op |-> "index_documents", data_dir |-> data_dir,
                                listing |-> <<>>, files |-> 0, chunks |-> 0, save |-> "none"]]
    ELSE rebuilt(vs, data_dir, outcome,
                 scan_files(vs.dirs[data_dir].listing,
                            [documents |-> <<>>, files |-> 0, chunks |-> 0], vs.chunk_size))

\* VectorStoreManager.clear: returns True, since _save_index raises nothing
clear(vs, outcome) ==
    [vs EXCEPT !.documents = <<>>,
               !.snapshot = save_index([documents |-> <<>>, snapshot |-> vs.snapshot], outcome),
               !.result = [op |-> "clear", ok |-> TRUE, save |-> outcome]]

(***************************************************************************)
(* State transitions                                                       *)
(***************************************************************************)
Store == [s |-> sessions, h |-> heap, exc |-> "none"]

\* the BriefData of user u, as seen through the session
DataOf(u) == heap[sessions[u].data]

StatusOf(u) == sessions[u].status

\* instances nobody references are garbage: they are kept at the default
Collect(H, S, T) ==
    [o \in DOMAIN H |->
        IF o \in ObjIds \ (SessionRefs(S) \cup TaskRefs(T)) THEN BriefData ELSE H[o]]

Commit(st, T) ==
    /\ sessions' = st.s
    /\ tasks' = T
    /\ heap' = Collect(st.h, st.s, T)

\* the corpus directories a rebuild can be pointed at
DirNames == {"data", "docs"}

\* get_rate_limiter() and VectorStoreManager() as main() builds them, in a
\* deployment whose RATE_LIMIT_MESSAGES is MaxAdmitted, on a disk with
\* neither a snapshot nor a corpus directory
InitAux ==
    /\ limiter = RateLimiter(MaxAdmitted, 0)
    /\ states = UserStateManager
    /\ index = VectorStoreManager(RAG_CHUNK_SIZE, NoSnapshot, [d \in DirNames |-> NoDirectory])

Init ==
    /\ InitAux
    /\ sessions = [u \in Users |-> NoSession]
    /\ heap = NewHeap
    /\ tasks = [t \in TaskIds |-> NoTask]
    /\ now = 0
    /\ rendered = NoRender
    /\ reply = [kind |-> "none", missing |-> <<>>, buttons |-> <<>>]
    /\ lastOp = [op |-> "init", user |-> "u1", pre |-> "none"]
    /\ gw = NewClient(API_MAX_RETRIES)

\* time passes
Tick ==
    /\ now < MaxTime
    /\ now' = now + 1
    /\ UNCHANGED <<sessions, heap, tasks, rendered, reply, lastOp, gw, auxVars>>

(***************************************************************************)
(* The session registry driven through its public operations               *)
(***************************************************************************)
ApiUser == "u1"
ApiStr == <<"x">>
RequiredKeys == {"project_goal", "project_type", "platform"}
ApiKeys == {"project_goal", "platform", "must_have_features", "no_such_field"}

\* a call of the registry that returned or raised exc
Called(op, u, st) ==
    /\ Commit(st, tasks)
    /\ lastOp' = [op |-> op, user |-> u, pre |-> sessions[u].status, exc |-> st.exc]

ApiGetSession(u) ==
    /\ ~HasSession(sessions, u)
    /\ Called("get_session", u, get_session(Store, u))
    /\ UNCHANGED <<now, rendered, reply, gw, auxVars>>

ApiStartSession(u) ==
    /\ Called("start", u, start_session(Store, u))
    /\ UNCHANGED <<now, rendered, reply, gw, auxVars>>

ApiCancelSession(u) ==
    /\ Called("cancel", u, cancel_session(Store, u))
    /\ UNCHANGED <<now, rendered, reply, gw, auxVars>>

ApiAddMessage(u, text) ==
    /\ HasSession(sessions, u)
    /\ Len(DataOf(u).raw_messages) < MaxMsgs
    /\ Called("add_message", u, add_message(Store, u, text))
    /\ UNCHANGED <<now, rendered, reply, gw, auxVars>>

ApiMarkReady(u) ==
    /\ HasSession(sessions, u)
    /\ Called("mark_ready", u, mark_ready(Store, u))
    /\ UNCHANGED <<now, rendered, reply, gw, auxVars>>

\* the list getattr(data, key) gives, when it gives one, has room for an entry
ListRoom(u, key) ==
    LET g == get_session(Store, u)
        d == g.h[g.s[u].data]
    IN key \in Attributes /\ IsList(d, key) =>
          IF HasOwn(d, key) THEN Len(Own(d, key)) < MaxList
          ELSE Len(heap[ClassObj][key]) < Len(BriefDataClass[key]) + 1

\* update_brief_data(u, **kwargs)
ApiUpdateBriefData(u, kwargs) ==
    /\ \A i \in 1 .. Len(kwargs) : ListRoom(u, kwargs[i].key)
    /\ Called("update_brief_data", u, update_brief_data(Store, u, kwargs))
    /\ UNCHANGED <<now, rendered, reply, gw, auxVars>>

ApiSetBriefField(u, key, arg) ==
    /\ Called("set_brief_field", u, set_brief_field(Store, u, key, arg))
    /\ UNCHANGED <<now, rendered, reply, gw, auxVars>>

ApiAddToListField(u, key, value) ==
    /\ ListRoom(u, key)
    /\ Called("add_to_list_field", u, add_to_list_field(Store, u, key, value))
    /\ UNCHANGED <<now, rendered, reply, gw, auxVars>>

\* the list object the callers keep and pass again
ApiList == CHOOSE L \in CallerLists : TRUE

\* the keys under which they pass it to update_brief_data and to
\* set_brief_field
UpdateHeldKeys == {"project_goal"}
SetHeldKeys == {"must_have_features"}

\* the values the callers pass under a key
UpdateValues(key) ==
    (IF key \in ListFields THEN <<Str(ApiStr), List(<<ApiStr>>)>>
     ELSE IF key \in ScalarFields THEN <<Str(<<>>), Str(ApiStr)>>
     ELSE <<Str(ApiStr)>>)
    \o (IF key \in UpdateHeldKeys THEN <<Held(ApiList)>> ELSE <<>>)

SetValues(key) ==
    (IF key \in ListFields THEN <<List(<<>>), List(<<ApiStr>>), Str(ApiStr)>>
     ELSE IF key \in ScalarFields THEN <<Str(<<>>), Str(ApiStr)>>
     ELSE IF key \in ClassLists THEN <<List(<<>>)>>
     ELSE <<Str(ApiStr)>>)
    \o (IF key \in SetHeldKeys THEN <<Held(ApiList)>> ELSE <<>>)

\* calls of update_brief_data with a keyword that names a parameter, and with
\* two keywords
UpdateCalls ==
    << <<Kw("user_id", Str(ApiStr))>>,
       <<Kw("project_type", Str(ApiStr)), Kw("platform", Str(ApiStr))>> >>

NextApi ==
    \/ Tick
    \/ ApiGetSession(ApiUser)
    \/ ApiStartSession(ApiUser)
    \/ ApiCancelSession(ApiUser)
    \/ ApiAddMessage(ApiUser, ApiStr)
    \/ ApiMarkReady(ApiUser)
    \/ \E key \in ApiKeys : \E i \in 1 .. Len(UpdateValues(key)) :
          ApiUpdateBriefData(ApiUser, <<Kw(key, UpdateValues(key)[i])>>)
    \/ \E i \in 1 .. Len(UpdateCalls) : ApiUpdateBriefData(ApiUser, UpdateCalls[i])
    \/ \E key \in ApiKeys : \E i \in 1 .. Len(SetValues(key)) :
          ApiSetBriefField(ApiUser, key, SetValues(key)[i])
    \/ \E key \in ApiKeys : ApiAddToListField(ApiUser, key, ApiStr)

SpecApi == Init /\ [][NextApi]_vars

(***************************************************************************)
(* The session registry written through names that are no field: the lists *)
(* of the class, a method, a name setattr refuses                          *)
(***************************************************************************)
AttrKeys == {"REQUIRED_FIELDS", "RECOMMENDED_FIELDS", "to_dict", "__class__"}

\* calls of update_brief_data whose second keyword raises: setattr refuses
\* it, or it names a parameter
AttrCalls ==
    << <<Kw("project_goal", Str(ApiStr)), Kw("__class__", Str(ApiStr))>>,
       <<Kw("project_goal", Str(ApiStr)), Kw("self", Str(ApiStr))>> >>

NextAttrs ==
    \/ ApiStartSession(ApiUser)
    \/ ApiCancelSession(ApiUser)
    \/ ApiMarkReady(ApiUser)
    \/ \E key \in RequiredKeys : ApiUpdateBriefData(ApiUser, <<Kw(key, Str(ApiStr))>>)
    \/ \E key \in AttrKeys : \E i \in 1 .. Len(UpdateValues(key)) :
          ApiUpdateBriefData(ApiUser, <<Kw(key, UpdateValues(key)[i])>>)
    \/ \E i \in 1 .. Len(AttrCalls) : ApiUpdateBriefData(ApiUser, AttrCalls[i])
    \/ \E key \in AttrKeys : \E i \in 1 .. Len(SetValues(key)) :
          ApiSetBriefField(ApiUser, key, SetValues(key)[i])
    \/ \E key \in AttrKeys : ApiAddToListField(ApiUser, key, ApiStr)
    \/ UserStateAddMessage(ApiUser, "user", ApiStr)

SpecAttrs == Init /\ [][NextAttrs]_vars

(***************************************************************************)
(* utils/keyboards.py                                                      *)
(***************************************************************************)
\* PROJECT_TYPE_MAP.get(type_key, <other>)
PROJECT_TYPE_MAP(key) ==
    CASE key = "landing" -> <<"L", "a", "n", "d", "i", "n", "g">>
      [] key = "website" -> <<"S", "i", "t", "e">>
      [] key = "ecommerce" -> <<"S", "h", "o", "p">>
      [] key = "app" -> <<"A", "p", "p">>
      [] key = "bot" -> <<"B", "o", "t">>
      [] OTHER -> <<"O", "t", "h", "e", "r">>

\* PLATFORM_MAP.get(platform_key, "Web")
PLATFORM_MAP(key) ==
    CASE key = "ios" -> <<"i", "O", "S">>
      [] key = "android" -> <<"A", "n", "d", "r", "o", "i", "d">>
      [] key = "cross" -> <<"W", "e", "b", " ", "+", " ", "M", "o", "b", "i", "l", "e">>
      [] key = "telegram" -> <<"T", "e", "l", "e", "g", "r", "a", "m">>
      [] OTHER -> <<"W", "e", "b">>

\* DEADLINE_MAP.get(deadline_key, <undefined>)
DEADLINE_MAP(key) ==
    CASE key = "1w" -> <<"1", "w">>
      [] key = "1m" -> <<"1", "m">>
      [] key = "3m" -> <<"3", "m">>
      [] key = "3m+" -> <<"3", "m", "+">>
      [] key = "unknown" -> <<"?", " ", "(", "a", "s", "k", ")">>
      [] OTHER -> <<"?">>

\* BUDGET_MAP.get(budget_key, <undefined>)
BUDGET_MAP(key) ==
    CASE key = "low" -> <<"l", "o", "w">>
      [] key = "mid" -> <<"m", "i", "d">>
      [] key = "high" -> <<"h", "i", "g", "h">>
      [] key = "flex" -> <<"f", "l", "e", "x">>
      [] OTHER -> <<"?">>

\* field_to_callback.get(field_name); "" stands for None
field_to_callback(field_name) ==
    CASE field_name = "project_goal" -> "fill:goal"
      [] field_name = "project_type" -> "fill:project_type"
      [] field_name = "platform" -> "fill:platform"
      [] field_name = "deadline" -> "fill:deadline"
      [] field_name = "budget_range" -> "fill:budget"
      [] field_name = "deliverables" -> "fill:deliverables"
      [] field_name = "must_have_features" -> "fill:features"
      [] field_name = "target_audience" -> "fill:audience"
      [] OTHER -> ""

RECURSIVE field_buttons(_)
field_buttons(missing_fields) ==
    IF missing_fields = <<>> THEN <<>>
    ELSE LET callback == field_to_callback(Head(missing_fields)[1])
         IN (IF callback # "" THEN <<callback>> ELSE <<>>) \o field_buttons(Tail(missing_fields))

get_missing_fields_keyboard_drop_first(missing_fields) ==
    field_buttons(Tail(missing_fields)) \o <<"fill:text">>

\* the callback_data of the buttons, top to bottom
get_missing_fields_keyboard(missing_fields) ==
    field_buttons(Take(missing_fields, 4)) \o <<"fill:text">>

\* get_summary_actions_keyboard(is_ready): the callback_data of its buttons
get_summary_actions_keyboard(is_ready) ==
    IF is_ready THEN <<"final", "continue", "cancel">> ELSE <<"continue", "cancel">>

\* the values callback.data.split(":")[1] takes for the "fill:" buttons
FillFields == {"goal", "project_type", "platform", "deadline", "budget", "features",
               "deliverables", "audience", "text"}

(***************************************************************************)
(* Search (rag/vectorstore.py).  A score is a Python float: a double with  *)
(* its 53-bit mantissa held in limbs, every operation rounded to nearest,  *)
(* ties to even.                                                           *)
(***************************************************************************)
\* the code points \w of re matches: those of the alphanumeric characters and
\* of the underscore
WordRanges ==
    <<<<48, 57>>, <<65, 90>>, <<95, 95>>, <<97, 122>>, <<170, 170>>, <<178, 179>>, <<181, 181>>, <<185, 186>>,
      <<188, 190>>, <<192, 214>>, <<216, 246>>, <<248, 705>>, <<710, 721>>, <<736, 740>>, <<748, 748>>, <<750, 750>>,
      <<880, 884>>, <<886, 887>>, <<890, 893>>, <<895, 895>>, <<902, 902>>, <<904, 906>>, <<908, 908>>, <<910, 929>>,
      <<931, 1013>>, <<1015, 1153>>, <<1162, 1327>>, <<1329, 1366>>, <<1369, 1369>>, <<1376, 1416>>, <<1488, 1514>>, <<1519, 1522>>,
      <<1568, 1610>>, <<1632, 1641>>, <<1646, 1647>>, <<1649, 1747>>, <<1749, 1749>>, <<1765, 1766>>, <<1774, 1788>>, <<1791, 1791>>,
      <<1808, 1808>>, <<1810, 1839>>, <<1869, 1957>>, <<1969, 1969>>, <<1984, 2026>>, <<2036, 2037>>, <<2042, 2042>>, <<2048, 2069>>,
      <<2074, 2074>>, <<2084, 2084>>, <<2088, 2088>>, <<2112, 2136>>, <<2144, 2154>>, <<2160, 2183>>, <<2185, 2190>>, <<2208, 2249>>,
      <<2308, 2361>>, <<2365, 2365>>, <<2384, 2384>>, <<2392, 2401>>, <<2406, 2415>>, <<2417, 2432>>, <<2437, 2444>>, <<2447, 2448>>,
      <<2451, 2472>>, <<2474, 2480>>, <<2482, 2482>>, <<2486, 2489>>, <<2493, 2493>>, <<2510, 2510>>, <<2524, 2525>>, <<2527, 2529>>,
      <<2534, 2545>>, <<2548, 2553>>, <<2556, 2556>>, <<2565, 2570>>, <<2575, 2576>>, <<2579, 2600>>, <<2602, 2608>>, <<2610, 2611>>,
      <<2613, 2614>>, <<2616, 2617>>, <<2649, 2652>>, <<2654, 2654>>, <<2662, 2671>>, <<2674, 2676>>, <<2693, 2701>>, <<2703, 2705>>,
      <<2707, 2728>>, <<2730, 2736>>, <<2738, 2739>>, <<2741, 2745>>, <<2749, 2749>>, <<2768, 2768>>, <<2784, 2785>>, <<2790, 2799>>,
      <<2809, 2809>>, <<2821, 2828>>, <<2831, 2832>>, <<2835, 2856>>, <<2858, 2864>>, <<2866, 2867>>, <<2869, 2873>>, <<2877, 2877>>,
      <<2908, 2909>>, <<2911, 2913>>, <<2918, 2927>>, <<2929, 2935>>, <<2947, 2947>>, <<2949, 2954>>, <<2958, 2960>>, <<2962, 2965>>,
      <<2969, 2970>>, <<2972, 2972>>, <<2974, 2975>>, <<2979, 2980>>, <<2984, 2986>>, <<2990, 3001>>, <<3024, 3024>>, <<3046, 3058>>,
      <<3077, 3084>>, <<3086, 3088>>, <<3090, 3112>>, <<3114, 3129>>, <<3133, 3133>>, <<3160, 3162>>, <<3165, 3165>>, <<3168, 3169>>,
      <<3174, 3183>>, <<3192, 3198>>, <<3200, 3200>>, <<3205, 3212>>, <<3214, 3216>>, <<3218, 3240>>, <<3242, 3251>>, <<3253, 3257>>,
      <<3261, 3261>>, <<3293, 3294>>, <<3296, 3297>>, <<3302, 3311>>, <<3313, 3314>>, <<3332, 3340>>, <<3342, 3344>>, <<3346, 3386>>,
      <<3389, 3389>>, <<3406, 3406>>, <<3412, 3414>>, <<3416, 3425>>, <<3430, 3448>>, <<3450, 3455>>, <<3461, 3478>>, <<3482, 3505>>,
      <<3507, 3515>>, <<3517, 3517>>, <<3520, 3526>>, <<3558, 3567>>, <<3585, 3632>>, <<3634, 3635>>, <<3648, 3654>>, <<3664, 3673>>,
      <<3713, 3714>>, <<3716, 3716>>, <<3718, 3722>>, <<3724, 3747>>, <<3749, 3749>>, <<3751, 3760>>, <<3762, 3763>>, <<3773, 3773>>,
      <<3776, 3780>>, <<3782, 3782>>, <<3792, 3801>>, <<3804, 3807>>, <<3840, 3840>>, <<3872, 3891>>, <<3904, 3911>>, <<3913, 3948>>,
      <<3976, 3980>>, <<4096, 4138>>, <<4159, 4169>>, <<4176, 4181>>, <<4186, 4189>>, <<4193, 4193>>, <<4197, 4198>>, <<4206, 4208>>,
      <<4213, 4225>>, <<4238, 4238>>, <<4240, 4249>>, <<4256, 4293>>, <<4295, 4295>>, <<4301, 4301>>, <<4304, 4346>>, <<4348, 4680>>,
      <<4682, 4685>>, <<4688, 4694>>, <<4696, 4696>>, <<4698, 4701>>, <<4704, 4744>>, <<4746, 4749>>, <<4752, 4784>>, <<4786, 4789>>,
      <<4792, 4798>>, <<4800, 4800>>, <<4802, 4805>>, <<4808, 4822>>, <<4824, 4880>>, <<4882, 4885>>, <<4888, 4954>>, <<4969, 4988>>,
      <<4992, 5007>>, <<5024, 5109>>, <<5112, 5117>>, <<5121, 5740>>, <<5743, 5759>>, <<5761, 5786>>, <<5792, 5866>>, <<5870, 5880>>,
      <<5888, 5905>>, <<5919, 5937>>, <<5952, 5969>>, <<5984, 5996>>, <<5998, 6000>>, <<6016, 6067>>, <<6103, 6103>>, <<6108, 6108>>,
      <<6112, 6121>>, <<6128, 6137>>, <<6160, 6169>>, <<6176, 6264>>, <<6272, 6276>>, <<6279, 6312>>, <<6314, 6314>>, <<6320, 6389>>,
      <<6400, 6430>>, <<6470, 6509>>, <<6512, 6516>>, <<6528, 6571>>, <<6576, 6601>>, <<6608, 6618>>, <<6656, 6678>>, <<6688, 6740>>,
      <<6784, 6793>>, <<6800, 6809>>, <<6823, 6823>>, <<6917, 6963>>, <<6981, 6988>>, <<6992, 7001>>, <<7043, 7072>>, <<7086, 7141>>,
      <<7168, 7203>>, <<7232, 7241>>, <<7245, 7293>>, <<7296, 7304>>, <<7312, 7354>>, <<7357, 7359>>, <<7401, 7404>>, <<7406, 7411>>,
      <<7413, 7414>>, <<7418, 7418>>, <<7424, 7615>>, <<7680, 7957>>, <<7960, 7965>>, <<7968, 8005>>, <<8008, 8013>>, <<8016, 8023>>,
      <<8025, 8025>>, <<8027, 8027>>, <<8029, 8029>>, <<8031, 8061>>, <<8064, 8116>>, <<8118, 8124>>, <<8126, 8126>>, <<8130, 8132>>,
      <<8134, 8140>>, <<8144, 8147>>, <<8150, 8155>>, <<8160, 8172>>, <<8178, 8180>>, <<8182, 8188>>, <<8304, 8305>>, <<8308, 8313>>,
      <<8319, 8329>>, <<8336, 8348>>, <<8450, 8450>>, <<8455, 8455>>, <<8458, 8467>>, <<8469, 8469>>, <<8473, 8477>>, <<8484, 8484>>,
      <<8486, 8486>>, <<8488, 8488>>, <<8490, 8493>>, <<8495, 8505>>, <<8508, 8511>>, <<8517, 8521>>, <<8526, 8526>>, <<8528, 8585>>,
      <<9312, 9371>>, <<9450, 9471>>, <<10102, 10131>>, <<11264, 11492>>, <<11499, 11502>>, <<11506, 11507>>, <<11517, 11517>>, <<11520, 11557>>,
      <<11559, 11559>>, <<11565, 11565>>, <<11568, 11623>>, <<11631, 11631>>, <<11648, 11670>>, <<11680, 11686>>, <<11688, 11694>>, <<11696, 11702>>,
      <<11704, 11710>>, <<11712, 11718>>, <<11720, 11726>>, <<11728, 11734>>, <<11736, 11742>>, <<11823, 11823>>, <<12293, 12295>>, <<12321, 12329>>,
      <<12337, 12341>>, <<12344, 12348>>, <<12353, 12438>>, <<12445, 12447>>, <<12449, 12538>>, <<12540, 12543>>, <<12549, 12591>>, <<12593, 12686>>,
      <<12690, 12693>>, <<12704, 12735>>, <<12784, 12799>>, <<12832, 12841>>, <<12872, 12879>>, <<12881, 12895>>, <<12928, 12937>>, <<12977, 12991>>,
      <<13312, 19903>>, <<19968, 42124>>, <<42192, 42237>>, <<42240, 42508>>, <<42512, 42539>>, <<42560, 42606>>, <<42623, 42653>>, <<42656, 42735>>,
      <<42775, 42783>>, <<42786, 42888>>, <<42891, 42954>>, <<42960, 42961>>, <<42963, 42963>>, <<42965, 42969>>, <<42994, 43009>>, <<43011, 43013>>,
      <<43015, 43018>>, <<43020, 43042>>, <<43056, 43061>>, <<43072, 43123>>, <<43138, 43187>>, <<43216, 43225>>, <<43250, 43255>>, <<43259, 43259>>,
      <<43261, 43262>>, <<43264, 43301>>, <<43312, 43334>>, <<43360, 43388>>, <<43396, 43442>>, <<43471, 43481>>, <<43488, 43492>>, <<43494, 43518>>,
      <<43520, 43560>>, <<43584, 43586>>, <<43588, 43595>>, <<43600, 43609>>, <<43616, 43638>>, <<43642, 43642>>, <<43646, 43695>>, <<43697, 43697>>,
      <<43701, 43702>>, <<43705, 43709>>, <<43712, 43712>>, <<43714, 43714>>, <<43739, 43741>>, <<43744, 43754>>, <<43762, 43764>>, <<43777, 43782>>,
      <<43785, 43790>>, <<43793, 43798>>, <<43808, 43814>>, <<43816, 43822>>, <<43824, 43866>>, <<43868, 43881>>, <<43888, 44002>>, <<44016, 44025>>,
      <<44032, 55203>>, <<55216, 55238>>, <<55243, 55291>>, <<63744, 64109>>, <<64112, 64217>>, <<64256, 64262>>, <<64275, 64279>>, <<64285, 64285>>,
      <<64287, 64296>>, <<64298, 64310>>, <<64312, 64316>>, <<64318, 64318>>, <<64320, 64321>>, <<64323, 64324>>, <<64326, 64433>>, <<64467, 64829>>,
      <<64848, 64911>>, <<64914, 64967>>, <<65008, 65019>>, <<65136, 65140>>, <<65142, 65276>>, <<65296, 65305>>, <<65313, 65338>>, <<65345, 65370>>,
      <<65382, 65470>>, <<65474, 65479>>, <<65482, 65487>>, <<65490, 65495>>, <<65498, 65500>>, <<65536, 65547>>, <<65549, 65574>>, <<65576, 65594>>,
      <<65596, 65597>>, <<65599, 65613>>, <<65616, 65629>>, <<65664, 65786>>, <<65799, 65843>>, <<65856, 65912>>, <<65930, 65931>>, <<66176, 66204>>,
      <<66208, 66256>>, <<66273, 66299>>, <<66304, 66339>>, <<66349, 66378>>, <<66384, 66421>>, <<66432, 66461>>, <<66464, 66499>>, <<66504, 66511>>,
      <<66513, 66517>>, <<66560, 66717>>, <<66720, 66729>>, <<66736, 66771>>, <<66776, 66811>>, <<66816, 66855>>, <<66864, 66915>>, <<66928, 66938>>,
      <<66940, 66954>>, <<66956, 66962>>, <<66964, 66965>>, <<66967, 66977>>, <<66979, 66993>>, <<66995, 67001>>, <<67003, 67004>>, <<67072, 67382>>,
      <<67392, 67413>>, <<67424, 67431>>, <<67456, 67461>>, <<67463, 67504>>, <<67506, 67514>>, <<67584, 67589>>, <<67592, 67592>>, <<67594, 67637>>,
      <<67639, 67640>>, <<67644, 67644>>, <<67647, 67669>>, <<67672, 67702>>, <<67705, 67742>>, <<67751, 67759>>, <<67808, 67826>>, <<67828, 67829>>,
      <<67835, 67867>>, <<67872, 67897>>, <<67968, 68023>>, <<68028, 68047>>, <<68050, 68096>>, <<68112, 68115>>, <<68117, 68119>>, <<68121, 68149>>,
      <<68160, 68168>>, <<68192, 68222>>, <<68224, 68255>>, <<68288, 68295>>, <<68297, 68324>>, <<68331, 68335>>, <<68352, 68405>>, <<68416, 68437>>,
      <<68440, 68466>>, <<68472, 68497>>, <<68521, 68527>>, <<68608, 68680>>, <<68736, 68786>>, <<68800, 68850>>, <<68858, 68899>>, <<68912, 68921>>,
      <<69216, 69246>>, <<69248, 69289>>, <<69296, 69297>>, <<69376, 69415>>, <<69424, 69445>>, <<69457, 69460>>, <<69488, 69505>>, <<69552, 69579>>,
      <<69600, 69622>>, <<69635, 69687>>, <<69714, 69743>>, <<69745, 69746>>, <<69749, 69749>>, <<69763, 69807>>, <<69840, 69864>>, <<69872, 69881>>,
      <<69891, 69926>>, <<69942, 69951>>, <<69956, 69956>>, <<69959, 69959>>, <<69968, 70002>>, <<70006, 70006>>, <<70019, 70066>>, <<70081, 70084>>,
      <<70096, 70106>>, <<70108, 70108>>, <<70113, 70132>>, <<70144, 70161>>, <<70163, 70187>>, <<70272, 70278>>, <<70280, 70280>>, <<70282, 70285>>,
      <<70287, 70301>>, <<70303, 70312>>, <<70320, 70366>>, <<70384, 70393>>, <<70405, 70412>>, <<70415, 70416>>, <<70419, 70440>>, <<70442, 70448>>,
      <<70450, 70451>>, <<70453, 70457>>, <<70461, 70461>>, <<70480, 70480>>, <<70493, 70497>>, <<70656, 70708>>, <<70727, 70730>>, <<70736, 70745>>,
      <<70751, 70753>>, <<70784, 70831>>, <<70852, 70853>>, <<70855, 70855>>, <<70864, 70873>>, <<71040, 71086>>, <<71128, 71131>>, <<71168, 71215>>,
      <<71236, 71236>>, <<71248, 71257>>, <<71296, 71338>>, <<71352, 71352>>, <<71360, 71369>>, <<71424, 71450>>, <<71472, 71483>>, <<71488, 71494>>,
      <<71680, 71723>>, <<71840, 71922>>, <<71935, 71942>>, <<71945, 71945>>, <<71948, 71955>>, <<71957, 71958>>, <<71960, 71983>>, <<71999, 71999>>,
      <<72001, 72001>>, <<72016, 72025>>, <<72096, 72103>>, <<72106, 72144>>, <<72161, 72161>>, <<72163, 72163>>, <<72192, 72192>>, <<72203, 72242>>,
      <<72250, 72250>>, <<72272, 72272>>, <<72284, 72329>>, <<72349, 72349>>, <<72368, 72440>>, <<72704, 72712>>, <<72714, 72750>>, <<72768, 72768>>,
      <<72784, 72812>>, <<72818, 72847>>, <<72960, 72966>>, <<72968, 72969>>, <<72971, 73008>>, <<73030, 73030>>, <<73040, 73049>>, <<73056, 73061>>,
      <<73063, 73064>>, <<73066, 73097>>, <<73112, 73112>>, <<73120, 73129>>, <<73440, 73458>>, <<73648, 73648>>, <<73664, 73684>>, <<73728, 74649>>,
      <<74752, 74862>>, <<74880, 75075>>, <<77712, 77808>>, <<77824, 78894>>, <<82944, 83526>>, <<92160, 92728>>, <<92736, 92766>>, <<92768, 92777>>,
      <<92784, 92862>>, <<92864, 92873>>, <<92880, 92909>>, <<92928, 92975>>, <<92992, 92995>>, <<93008, 93017>>, <<93019, 93025>>, <<93027, 93047>>,
      <<93053, 93071>>, <<93760, 93846>>, <<93952, 94026>>, <<94032, 94032>>, <<94099, 94111>>, <<94176, 94177>>, <<94179, 94179>>, <<94208, 100343>>,
      <<100352, 101589>>, <<101632, 101640>>, <<110576, 110579>>, <<110581, 110587>>, <<110589, 110590>>, <<110592, 110882>>, <<110928, 110930>>, <<110948, 110951>>,
      <<110960, 111355>>, <<113664, 113770>>, <<113776, 113788>>, <<113792, 113800>>, <<113808, 113817>>, <<119520, 119539>>, <<119648, 119672>>, <<119808, 119892>>,
      <<119894, 119964>>, <<119966, 119967>>, <<119970, 119970>>, <<119973, 119974>>, <<119977, 119980>>, <<119982, 119993>>, <<119995, 119995>>, <<119997, 120003>>,
      <<120005, 120069>>, <<120071, 120074>>, <<120077, 120084>>, <<120086, 120092>>, <<120094, 120121>>, <<120123, 120126>>, <<120128, 120132>>, <<120134, 120134>>,
      <<120138, 120144>>, <<120146, 120485>>, <<120488, 120512>>, <<120514, 120538>>, <<120540, 120570>>, <<120572, 120596>>, <<120598, 120628>>, <<120630, 120654>>,
      <<120656, 120686>>, <<120688, 120712>>, <<120714, 120744>>, <<120746, 120770>>, <<120772, 120779>>, <<120782, 120831>>, <<122624, 122654>>, <<123136, 123180>>,
      <<123191, 123197>>, <<123200, 123209>>, <<123214, 123214>>, <<123536, 123565>>, <<123584, 123627>>, <<123632, 123641>>, <<124896, 124902>>, <<124904, 124907>>,
      <<124909, 124910>>, <<124912, 124926>>, <<124928, 125124>>, <<125127, 125135>>, <<125184, 125251>>, <<125259, 125259>>, <<125264, 125273>>, <<126065, 126123>>,
      <<126125, 126127>>, <<126129, 126132>>, <<126209, 126253>>, <<126255, 126269>>, <<126464, 126467>>, <<126469, 126495>>, <<126497, 126498>>, <<126500, 126500>>,
      <<126503, 126503>>, <<126505, 126514>>, <<126516, 126519>>, <<126521, 126521>>, <<126523, 126523>>, <<126530, 126530>>, <<126535, 126535>>, <<126537, 126537>>,
      <<126539, 126539>>, <<126541, 126543>>, <<126545, 126546>>, <<126548, 126548>>, <<126551, 126551>>, <<126553, 126553>>, <<126555, 126555>>, <<126557, 126557>>,
      <<126559, 126559>>, <<126561, 126562>>, <<126564, 126564>>, <<126567, 126570>>, <<126572, 126578>>, <<126580, 126583>>, <<126585, 126588>>, <<126590, 126590>>,
      <<126592, 126601>>, <<126603, 126619>>, <<126625, 126627>>, <<126629, 126633>>, <<126635, 126651>>, <<127232, 127244>>, <<130032, 130041>>, <<131072, 173791>>,
      <<173824, 177976>>, <<177984, 178205>>, <<178208, 183969>>, <<183984, 191456>>, <<194560, 195101>>, <<196608, 201546>>>>

\* \w among the ASCII characters and the Russian letters
PlainWord ==
    UpperLetters \cup {LowerCase[i] : i \in 1 .. Len(LowerCase)}
        \cup {Digits[i] : i \in 1 .. Len(Digits)} \cup {"_"}

\* \w matches c
is_word(c) == IF Len(c) <= 2 THEN c \in PlainWord ELSE in_ranges(WordRanges, ord(c))

\* the place where the run of word characters that begins at place i ends
word_end(words, n, i) == first_place({k \in i .. (n + 1) : k \notin words}) - 1

\* the runs, words being the places of the word characters of a text of n
\* characters: a run begins at a place of words that has none before it
RECURSIVE word_runs(_, _, _)
run_from(text, words, starts, i) ==
    <<SubSeq(text, i, word_end(words, Len(text), i))>> \o word_runs(text, words, starts \ {i})

word_runs(text, words, starts) ==
    IF starts = {} THEN <<>> ELSE run_from(text, words, starts, first_place(starts))

run_starts(words) == {k \in words : (k - 1) \notin words}

words_at(text, words) == word_runs(text, words, run_starts(words))

\* re.findall(r'\b\w+\b', text): the maximal runs of word characters
findall_words(text) == words_at(text, {k \in 1 .. Len(text) : is_word(text[k])})

tokenize_keep_short(text) == findall_words(lower(text))

\* VectorStoreManager._tokenize
tokenize(text) == SelectSeq(findall_words(lower(text)), LAMBDA w : Len(w) > 2)

\* Counter(doc_tokens)[token]
doc_counter(doc_tokens, token) == Cardinality({i \in 1 .. Len(doc_tokens) : doc_tokens[i] = token})

(***************************************************************************)
(* float: the scores are IEEE 754 doubles, and an operation on them is the  *)
(* exact one rounded to the nearest double, to the even one on a tie.  A    *)
(* double is the record of its sign, its mantissa m of MantissaBits bits    *)
(* and the exponent e of the mantissa's lowest bit: it is m * 2^e; 0.0 has  *)
(* m = 0 and e = 0.  A natural number is the sequence of its digits to the  *)
(* base Limb, the lowest first; a mantissa has MantissaLimbs of them.       *)
(***************************************************************************)
MantissaBits == 53
LimbBits == 14
Limb == Pow2(LimbBits)
MantissaLimbs == (MantissaBits + LimbBits - 1) \div LimbBits

\* the digit of n at place i, 0 beyond its length
LimbAt(n, i) == IF i >= 1 /\ i <= Len(n) THEN n[i] ELSE 0

RECURSIVE BitLength(_)
BitLength(v) == IF v = 0 THEN 0 ELSE 1 + BitLength(v \div 2)

\* the number of bits of n
NatBits(n) ==
    LET used == {i \in 1 .. Len(n) : n[i] # 0}
    IN IF used = {} THEN 0
       ELSE LET top == CHOOSE i \in used : \A k \in used : k <= i
            IN LimbBits * (top - 1) + BitLength(n[top])

\* bit k of n, bit 0 being the lowest
BitAt(n, k) == (LimbAt(n, (k \div LimbBits) + 1) \div Pow2(k % LimbBits)) % 2

\* one of the k lowest bits of n is set
LowBitsSet(n, k) ==
    \E i \in 1 .. Len(n) :
        /\ (i - 1) * LimbBits < k
        /\ IF i * LimbBits <= k THEN n[i] # 0 ELSE n[i] % Pow2(k - (i - 1) * LimbBits) # 0

\* n \div 2^k
ShiftRight(n, k) ==
    LET a == k \div LimbBits
        b == k % LimbBits
    IN [i \in 1 .. (IF Len(n) > a THEN Len(n) - a ELSE 0) |->
           (LimbAt(n, i + a) \div Pow2(b)) + (LimbAt(n, i + a + 1) % Pow2(b)) * Pow2(LimbBits - b)]

\* n * 2^k
ShiftLeft(n, k) ==
    LET a == k \div LimbBits
        b == k % LimbBits
    IN [j \in 1 .. (Len(n) + a + 1) |->
           (LimbAt(n, j - a) % Pow2(LimbBits - b)) * Pow2(b)
               + (LimbAt(n, j - a - 1) \div Pow2(LimbBits - b))]

RECURSIVE add_limbs(_, _, _, _)
add_limbs(a, b, i, carry) ==
    IF i > Len(a) /\ i > Len(b) THEN <<carry>>
    ELSE LET t == LimbAt(a, i) + LimbAt(b, i) + carry
         IN <<t % Limb>> \o add_limbs(a, b, i + 1, t \div Limb)

\* a + b
AddNat(a, b) == add_limbs(a, b, 1, 0)

RECURSIVE sub_limbs(_, _, _, _)
sub_limbs(a, b, i, borrow) ==
    IF i > Len(a) THEN <<>>
    ELSE LET t == LimbAt(a, i) - LimbAt(b, i) - borrow
         IN <<(t + Limb) % Limb>> \o sub_limbs(a, b, i + 1, IF t < 0 THEN 1 ELSE 0)

\* a - b for a >= b
SubNat(a, b) == sub_limbs(a, b, 1, 0)

\* a < b
LessNat(a, b) ==
    \E i \in 1 .. Len(b) :
        /\ LimbAt(a, i) < b[i]
        /\ \A k \in (i + 1) .. (IF Len(a) > Len(b) THEN Len(a) ELSE Len(b)) : LimbAt(a, k) = LimbAt(b, k)

\* the sum of the products of digits that make digit k of a * b
RECURSIVE column(_, _, _, _)
column(a, b, k, i) ==
    IF i > Len(a) THEN 0 ELSE LimbAt(a, i) * LimbAt(b, k + 1 - i) + column(a, b, k, i + 1)

RECURSIVE mul_limbs(_, _, _, _)
mul_limbs(a, b, k, carry) ==
    IF k > Len(a) + Len(b) THEN <<>>
    ELSE LET t == column(a, b, k, 1) + carry
         IN <<t % Limb>> \o mul_limbs(a, b, k + 1, t \div Limb)

\* a * b for two mantissas
MulNat(a, b) == mul_limbs(a, b, 1, 0)

\* quotient and remainder of n by an int d, from digit i down
RECURSIVE div_limbs(_, _, _, _)
div_limbs(n, d, i, rem) ==
    IF i = 0 THEN [q |-> <<>>, r |-> rem]
    ELSE LET t == rem * Limb + n[i]
             low == div_limbs(n, d, i - 1, t % d)
         IN [q |-> Append(low.q, t \div d), r |-> low.r]

\* the same bit by bit, from bit k - 1 down: the bits of the quotient, the
\* lowest first
RECURSIVE div_bits(_, _, _, _)
div_bits(n, d, k, rem) ==
    IF k = 0 THEN [q |-> <<>>, r |-> rem]
    ELSE LET t == 2 * rem + BitAt(n, k - 1)
             low == div_bits(n, d, k - 1, IF t >= d THEN t - d ELSE t)
         IN [q |-> Append(low.q, IF t >= d THEN 1 ELSE 0), r |-> low.r]

RECURSIVE bits_value(_)
bits_value(bits) == IF bits = <<>> THEN 0 ELSE Head(bits) + 2 * bits_value(Tail(bits))

\* the digits of the number with these bits
limbs_of_bits(bits) ==
    [i \in 1 .. ((Len(bits) + LimbBits - 1) \div LimbBits) |->
        bits_value(SubSeq(bits, (i - 1) * LimbBits + 1, Min(i * LimbBits, Len(bits))))]

pack_quotient(d) == [q |-> limbs_of_bits(d.q), r |-> d.r]

\* n divided by an int d: digit by digit while a remainder times Limb is an
\* int, bit by bit for a larger d
DivNat(n, d) ==
    IF d <= Pow2(31 - LimbBits) THEN div_limbs(n, d, Len(n), 0)
    ELSE pack_quotient(div_bits(n, d, NatBits(n), 0))

\* the digits of an int a >= 0
Limbs(a) == <<a % Limb, (a \div Limb) % Limb, a \div (Limb * Limb)>>

Zero == [neg |-> FALSE, m |-> [i \in 1 .. MantissaLimbs |-> 0], e |-> 0]

Mantissa(n) == [i \in 1 .. MantissaLimbs |-> LimbAt(n, i)]

\* the double n * 2^e, for n of at most MantissaBits bits
Double(n, e) == [neg |-> FALSE, m |-> Mantissa(n), e |-> e]

\* the mantissa r has grown a bit by the rounding, or not
round_carry(r, e) ==
    IF NatBits(r) > MantissaBits THEN Double(ShiftRight(r, 1), e + 1) ELSE Double(r, e)

\* n loses its k lowest bits: up when they are more than half of the bit above
\* them, or half of it and that bit is set
round_cut(n, e, inexact, k) ==
    round_carry(IF BitAt(n, k - 1) = 1 /\ (LowBitsSet(n, k - 1) \/ inexact \/ BitAt(n, k) = 1)
                THEN AddNat(ShiftRight(n, k), <<1>>)
                ELSE ShiftRight(n, k),
                e + k)

round_bits(n, e, inexact, bits) ==
    IF bits = 0 THEN Zero
    ELSE IF bits <= MantissaBits THEN Double(ShiftLeft(n, MantissaBits - bits), e - (MantissaBits - bits))
    ELSE round_cut(n, e, inexact, bits - MantissaBits)

\* the double nearest to n * 2^e, or to a little more when inexact says that
\* what n was cut from had a rest; ties go to the even mantissa
Round(n, e, inexact) == round_bits(n, e, inexact, NatBits(n))

\* a / b for two int, 0 <= a and 0 < b: the quotient is cut below its bit of
\* weight 2^-PrecisionBits, below the mantissa's lowest
PrecisionBits == 6 * LimbBits
round_quotient(d) == Round(d.q, 0 - PrecisionBits, d.r # 0)
float_div(a, b) == round_quotient(DivNat(ShiftLeft(Limbs(a), PrecisionBits), b))

One == float_div(1, 1)

\* x * y
float_mul(x, y) ==
    IF x = Zero \/ y = Zero THEN Zero
    ELSE [Round(MulNat(x.m, y.m), x.e + y.e, FALSE) EXCEPT !.neg = (x.neg # y.neg)]

\* a * 2^e - b * 2^e
\* a * 2^e - b * 2^e for a >= b, negated when neg
sub_ordered(a, b, e, neg) == [Round(SubNat(a, b), e, FALSE) EXCEPT !.neg = neg]

sub_nat(a, b, e) ==
    sub_ordered(IF LessNat(a, b) THEN b ELSE a, IF LessNat(a, b) THEN a ELSE b, e, LessNat(a, b))

sub_at(x, y, e) == sub_nat(ShiftLeft(x.m, x.e - e), ShiftLeft(y.m, y.e - e), e)

\* |x| + |y| with the sign of x, and |x| - |y|
add_at(x, y, e) ==
    [Round(AddNat(ShiftLeft(x.m, x.e - e), ShiftLeft(y.m, y.e - e)), e, FALSE) EXCEPT !.neg = x.neg]

\* -x
float_neg(x) == IF x = Zero THEN Zero ELSE [x EXCEPT !.neg = ~x.neg]

\* x + y
float_add(x, y) ==
    IF x = Zero THEN y
    ELSE IF y = Zero THEN x
    ELSE IF x.neg = y.neg THEN add_at(x, y, Min(x.e, y.e))
    ELSE sub_at(IF x.neg THEN y ELSE x, IF x.neg THEN x ELSE y, Min(x.e, y.e))

\* x - y
float_sub(x, y) == float_add(x, float_neg(y))

\* x < y, for x, y >= 0
float_less(x, y) ==
    IF y = Zero THEN FALSE
    ELSE IF x = Zero THEN TRUE
    ELSE x.e < y.e \/ (x.e = y.e /\ LessNat(x.m, y.m))

\* math.log(1.0 + 1.0 / (1.0 + count)) for count = 1, 2, .. 14, where the argument
\* is 1.0 + 0x1.09p-4 or more: the digits of the mantissa, then the exponent,
\* of the double the C library gives
LogTable ==
    <<<<6220, 13054, 12862, 1660, -54>>, <<7057, 1235, 5665, 1178, -54>>, <<6690, 7786, 16252, 1827, -55>>, <<5749, 1938, 9473, 1493, -55>>,
      <<4779, 263, 13146, 1262, -55>>, <<9338, 2207, 14568, 1093, -55>>, <<13030, 14507, 12406, 1929, -56>>, <<353, 1065, 3714, 1726, -56>>,
      <<1740, 9457, 9207, 1561, -56>>, <<9761, 10803, 9738, 1425, -56>>, <<14974, 12022, 6876, 1311, -56>>, <<10956, 4887, 3031, 1214, -56>>,
      <<3823, 15046, 6212, 1130, -56>>, <<14854, 5752, 6539, 1057, -56>>>>

\* The log of the C library for an argument x near 1.0, from 1.0 - 0x1p-4 to
\* 1.0 + 0x1.09p-4, as 1.0 + 1.0 / (1.0 + count) is for the counts beyond
\* LogTable: a polynomial in r = x - 1.0 with the coefficients B, each
\* operation a double operation.
LogPoly ==
    <<[neg |-> TRUE, m |-> <<0, 0, 0, 1024>>, e |-> -53],
      [neg |-> FALSE, m |-> <<5495, 5461, 5461, 1365>>, e |-> -54],
      [neg |-> TRUE, m |-> <<15819, 16383, 16383, 2047>>, e |-> -55],
      [neg |-> FALSE, m |-> <<7436, 9815, 6553, 1638>>, e |-> -55],
      [neg |-> TRUE, m |-> <<1447, 5533, 5461, 1365>>, e |-> -55],
      [neg |-> FALSE, m |-> <<7728, 3347, 4682, 1170>>, e |-> -55],
      [neg |-> TRUE, m |-> <<15717, 4360, 16378, 2047>>, e |-> -56],
      [neg |-> FALSE, m |-> <<5834, 8363, 6210, 1820>>, e |-> -56],
      [neg |-> TRUE, m |-> <<10495, 3777, 7860, 1638>>, e |-> -56],
      [neg |-> FALSE, m |-> <<4229, 7871, 6191, 1504>>, e |-> -56],
      [neg |-> TRUE, m |-> <<1485, 5957, 8503, 1364>>, e |-> -56]>>

B(k) == LogPoly[k + 1]

\* B[k] + r * B[k + 1] + r2 * B[k + 2] + r3 * rest
log_terms(r, r2, r3, k, rest) ==
    float_add(float_add(float_add(B(k), float_mul(r, B(k + 1))), float_mul(r2, B(k + 2))),
              float_mul(r3, rest))

\* y = r3 * (B[1] + r * B[2] + r2 * B[3] + r3 * (B[4] + .. + r3 * (B[7] + .. + r3 * B[10])))
log_poly(r, r2, r3) ==
    float_mul(r3, log_terms(r, r2, r3, 1, log_terms(r, r2, r3, 4, log_terms(r, r2, r3, 7, B(10)))))

\* lo = r - hi + w; lo += B[0] * rlo * (rhi + r); y += lo; y += hi
log_sum(r, rhi, rlo, w, hi, y) ==
    float_add(float_add(y, float_add(float_add(float_sub(r, hi), w),
                                     float_mul(float_mul(B(0), rlo), float_add(rhi, r)))),
              hi)

\* rlo = r - rhi; w = rhi * rhi * B[0]; hi = r + w
log_parts(r, rhi, w, y) == log_sum(r, rhi, float_sub(r, rhi), w, float_add(r, w), y)

\* w = r * 0x1p27; rhi = r + w - w
log_hi(r, rhi, y) == log_parts(r, rhi, float_mul(float_mul(rhi, rhi), B(0)), y)

\* r2 = r * r; r3 = r * r2; w = r * 0x1p27; rhi = r + w - w
log_split(r, r2, w) == log_hi(r, float_sub(float_add(r, w), w), log_poly(r, r2, float_mul(r, r2)))

log_r(r) == log_split(r, float_mul(r, r), float_mul(r, Round(<<1>>, 27, FALSE)))

\* log(x) for x near 1.0: r = x - 1.0
log_near_one(x) == log_r(float_sub(x, One))

\* math.log(1.0 + 1.0 / (1.0 + count))
log_count(count) ==
    IF count <= Len(LogTable) THEN Double(LogTable[count], LogTable[count][MantissaLimbs + 1])
    ELSE log_near_one(float_add(One, float_div(1, 1 + count)))

\* 1.0 + math.log(1.0 + 1.0 / (1.0 + count))
idf(count) == float_add(One, log_count(count))

\* score += tf * idf for a token that is doc_counter[token] = count times
\* among the n tokens of the document
add_tf_idf(score, count, n) ==
    IF count > 0 THEN float_add(score, float_mul(float_div(count, n), idf(count))) ELSE score

\* the loop over query_tokens, from score on
RECURSIVE tf_idf_sum(_, _, _)
tf_idf_sum(query_tokens, doc_tokens, score) ==
    IF query_tokens = <<>> THEN score
    ELSE tf_idf_sum(Tail(query_tokens), doc_tokens,
                    add_tf_idf(score, doc_counter(doc_tokens, Head(query_tokens)), Len(doc_tokens)))

score_tokens(query_tokens, doc_tokens) ==
    IF doc_tokens = <<>> THEN Zero ELSE tf_idf_sum(query_tokens, doc_tokens, Zero)

\* VectorStoreManager._calculate_relevance
calculate_relevance(query_tokens, doc_content) == score_tokens(query_tokens, tokenize(doc_content))

\* comparisons of two scores
ScoreLess(a, b) == float_less(a, b)
ScoreEqual(a, b) == a = b

\* 1.0 - score
distance(score) == float_sub(One, score)

\* the place of an entry in a list sorted by score, highest first, when it goes
\* in front of the entries it equals
insert_before_equal(sorted, entry) ==
    LET before == {i \in 1 .. Len(sorted) : ScoreLess(entry.score, sorted[i].score)}
    IN SubSeq(sorted, 1, Cardinality(before)) \o <<entry>>
           \o SubSeq(sorted, Cardinality(before) + 1, Len(sorted))

\* the place of an entry in a list sorted by score, highest first: behind the
\* entries it equals, as the stable list.sort leaves them
insert_sorted(sorted, entry) ==
    LET before == {i \in 1 .. Len(sorted) : ~ScoreLess(sorted[i].score, entry.score)}
    IN SubSeq(sorted, 1, Cardinality(before)) \o <<entry>>
           \o SubSeq(sorted, Cardinality(before) + 1, Len(sorted))

\* scored_docs.sort(key=lambda x: x[1], reverse=True)
RECURSIVE sort_by_score(_)
sort_by_score(scored_docs) ==
    IF scored_docs = <<>> THEN <<>>
    ELSE insert_sorted(sort_by_score(SubSeq(scored_docs, 1, Len(scored_docs) - 1)),
                       scored_docs[Len(scored_docs)])

\* if score > 0
score_positive(score) == float_less(Zero, score)

\* if score > 0: scored_docs.append((doc, score))
scored(i, score) == IF score_positive(score) THEN <<[doc |-> i, score |-> score]>> ELSE <<>>

\* the loop over self.documents; an entry holds the place of its document in the
\* index, which stands for the reference to the document the tuple holds
RECURSIVE score_documents(_, _, _)
score_documents(documents, query_tokens, i) ==
    IF i > Len(documents) THEN <<>>
    ELSE scored(i, calculate_relevance(query_tokens, documents[i].content))
             \o score_documents(documents, query_tokens, i + 1)

EmptyResult == [documents |-> <<>>, metadatas |-> <<>>, distances |-> <<>>, top_docs |-> <<>>]

\* VectorStoreManager.search for n_results >= 0; the inner lists of the
\* returned dict, and top_docs, the documents picked, by their place in the index
search_result(vs, top_docs) ==
    IF top_docs = <<>> THEN EmptyResult
    ELSE [documents |-> [i \in 1 .. Len(top_docs) |-> vs.documents[top_docs[i].doc].content],
          metadatas |-> [i \in 1 .. Len(top_docs) |-> [source |-> vs.documents[top_docs[i].doc].source]],
          distances |-> [i \in 1 .. Len(top_docs) |-> distance(top_docs[i].score)],
          top_docs |-> [i \in 1 .. Len(top_docs) |-> top_docs[i].doc]]

search_tokens(vs, query_tokens, n_results) ==
    IF query_tokens = <<>> THEN EmptyResult
    ELSE search_result(vs, Take(sort_by_score(score_documents(vs.documents, query_tokens, 1)), n_results))

search(vs, query, n_results) ==
    IF vs.documents = <<>> THEN EmptyResult ELSE search_tokens(vs, tokenize(query), n_results)

(***************************************************************************)
(* AutoRAGService: the retrieval trigger and the context it fetches        *)
(***************************************************************************)
\* sub in s, for two str
str_in(sub, s) ==
    \/ sub = <<>>
    \/ \E i \in 1 .. (Len(s) - Len(sub) + 1) : s[i] = sub[1] /\ SubSeq(s, i, i + Len(sub) - 1) = sub

\* RAG_KEYWORDS
RAG_KEYWORDS ==
    {<<"b", "e", "s", "t", " ", "p", "r", "a", "c", "t", "i", "c", "e">>,
     <<"l_", "u_", "ch", "sh", "i_", "e_", " ", "p_", "r_", "a_", "k_", "t_", "i_", "k_", "i_">>,
     <<"k_", "a_", "k_", " ", "p_", "r_", "a_", "v_", "i_", "l_", "q_", "n_", "o_">>,
     <<"p_", "r_", "a_", "v_", "i_", "l_", "o_">>, <<"p_", "r_", "a_", "v_", "i_", "l_", "a_">>,
     <<"r_", "e_", "k_", "o_", "m_", "e_", "n_", "d_", "a_", "c_", "i_", "i_">>,
     <<"s_", "o_", "v_", "e_", "t_", "y_">>, <<"s_", "o_", "v_", "e_", "t_">>,
     <<"ch", "t_", "o_", " ", "t_", "a_", "k_", "o_", "e_">>,
     <<"k_", "a_", "k_", " ", "s_", "o_", "s_", "t_", "a_", "v_", "i_", "t_", "q_">>,
     <<"k_", "a_", "k_", " ", "n_", "a_", "p_", "i_", "s_", "a_", "t_", "q_">>,
     <<"sh", "a_", "b_", "l_", "o_", "n_">>, <<"p_", "r_", "i_", "m_", "e_", "r_">>,
     <<"s_", "t_", "r_", "u_", "k_", "t_", "u_", "r_", "a_">>,
     <<"f_", "o_", "r_", "m_", "a_", "t_">>, <<"ch", "e_", "k_", "-", "l_", "i_", "s_", "t_">>,
     <<"ch", "e_", "k_", "l_", "i_", "s_", "t_">>, <<"c", "h", "e", "c", "k", "l", "i", "s", "t">>,
     <<"o_", "sh", "i_", "b_", "k_", "a_">>, <<"o_", "sh", "i_", "b_", "k_", "i_">>,
     <<"t_", "i_", "p_", "i_", "ch", "n_", "y_", "e_", " ", "o_", "sh", "i_", "b_", "k_", "i_">>,
     <<"ch", "a_", "s_", "t_", "y_", "e_", " ", "o_", "sh", "i_", "b_", "k_", "i_">>,
     <<"r_", "i_", "s_", "k_">>, <<"r_", "i_", "s_", "k_", "i_">>,
     <<"r", "e", "d", " ", "f", "l", "a", "g">>, <<"p_", "r_", "o_", "b_", "l_", "e_", "m_", "a_">>,
     <<"p_", "r_", "o_", "b_", "l_", "e_", "m_", "y_">>,
     <<"t_", "e_", "h_", "n_", "i_", "ch", "e_", "s_", "k_", "o_", "e_", " ", "z_", "a_", "d_", "a_", "n_", "i_", "e_">>,
     <<"t_", "z_">>, <<"b_", "r_", "i_", "f_">>,
     <<"t_", "r_", "e_", "b_", "o_", "v_", "a_", "n_", "i_", "ya">>, <<"s", "c", "o", "p", "e">>,
     <<"s_", "k_", "o_", "u_", "p_">>, <<"d", "e", "l", "i", "v", "e", "r", "a", "b", "l", "e">>}

\* RAG_PATTERNS: a pattern is a list of parts with \s+ between them, a part the
\* set of the words it can be
RAG_PATTERNS ==
    <<<<{<<"k_", "a_", "k_">>}, {<<"p_", "r_", "a_", "v_", "i_", "l_", "q_", "n_", "o_">>, <<"l_", "u_", "ch", "sh", "e_">>, <<"n_", "u_", "zh", "n_", "o_">>}>>,
     <<{<<"ch", "t_", "o_">>}, {<<"d_", "o_", "l_", "zh", "n_", "o_">>, <<"n_", "u_", "zh", "n_", "o_">>, <<"s_", "l_", "e_", "d_", "u_", "e_", "t_">>}>>,
     <<{<<"k_", "a_", "k_", "i_", "e_">>}, {<<"b_", "y_", "v_", "a_", "yu", "t_">>, <<"e_", "s_", "t_", "q_">>, <<"s_", "u_", "sc", "e_", "s_", "t_", "v_", "u_", "yu", "t_">>}>>,
     <<{<<"p_", "o_", "ch", "e_", "m_", "u_">>}, {<<"v_", "a_", "zh", "n_", "o_">>, <<"n_", "u_", "zh", "n_", "o_">>, <<"s_", "t_", "o_", "i_", "t_">>}>>,
     <<{<<"v_">>}, {<<"ch", "yo", "m_">>}, {<<"r_", "a_", "z_", "n_", "i_", "c_", "a_">>, <<"o_", "t_", "l_", "i_", "ch", "i_", "e_">>}>>,
     <<{<<"ch", "t_", "o_">>}, {<<"t_", "a_", "k_", "o_", "e_">>}>>,
     <<{<<"z_", "a_", "ch", "e_", "m_">>}, {<<"n_", "u_", "zh", "n_">>}>>>>

\* \s in a pattern
RegexSpace == Whitespace

\* re._casefix._EXTRA_CASES: the code points a lower-case code point stands for
\* besides itself when case is ignored
EXTRA_CASES ==
    <<<<105, {305}>>, <<115, {383}>>, <<181, {956}>>, <<305, {105}>>, <<383, {115}>>, <<837, {953, 8126}>>,
      <<912, {8147}>>, <<944, {8163}>>, <<946, {976}>>, <<949, {1013}>>, <<952, {977}>>, <<953, {837, 8126}>>,
      <<954, {1008}>>, <<956, {181}>>, <<960, {982}>>, <<961, {1009}>>, <<962, {963}>>, <<963, {962}>>,
      <<966, {981}>>, <<976, {946}>>, <<977, {952}>>, <<981, {966}>>, <<982, {960}>>, <<1008, {954}>>,
      <<1009, {961}>>, <<1013, {949}>>, <<1074, {7296}>>, <<1076, {7297}>>, <<1086, {7298}>>, <<1089, {7299}>>,
      <<1090, {7300, 7301}>>, <<1098, {7302}>>, <<1123, {7303}>>, <<7296, {1074}>>, <<7297, {1076}>>, <<7298, {1086}>>,
      <<7299, {1089}>>, <<7300, {1090, 7301}>>, <<7301, {1090, 7300}>>, <<7302, {1098}>>, <<7303, {1123}>>, <<7304, {42571}>>,
      <<7777, {7835}>>, <<7835, {7777}>>, <<8126, {837, 953}>>, <<8147, {912}>>, <<8163, {944}>>, <<42571, {7304}>>,
      <<64261, {64262}>>, <<64262, {64261}>>>>

fixes(lo) == UNION {EXTRA_CASES[k][2] : k \in {j \in 1 .. Len(EXTRA_CASES) : EXTRA_CASES[j][1] = lo}}

\* a letter p of a pattern compiled with re.IGNORECASE matches the character c:
\* the lower-case mapping of c is p or one of the extra cases of p.  The letters
\* of RAG_PATTERNS are lower-case.
literal_ignore(p, c) ==
    IF Len(c) <= 2 THEN (IF c \in UpperLetters THEN LowerOf[c] ELSE c) = p
    ELSE to_lower(ord(c)) \in {ord(p)} \cup fixes(ord(p))

RECURSIVE match_parts(_, _, _)
\* the parts of a pattern match the text from position pos on
match_parts(text, pos, parts) ==
    \E alt \in Head(parts) :
        /\ pos + Len(alt) - 1 <= Len(text)
        /\ \A j \in 1 .. Len(alt) : literal_ignore(alt[j], text[pos + j - 1])
        /\ \/ Len(parts) = 1
           \/ \E n \in 1 .. (Len(text) - pos - Len(alt) + 1) :
                 /\ \A j \in (pos + Len(alt)) .. (pos + Len(alt) + n - 1) : text[j] \in RegexSpace
                 /\ match_parts(text, pos + Len(alt) + n, Tail(parts))

\* pattern.search(text)
pattern_search(pattern, text) == \E pos \in 1 .. Len(text) : match_parts(text, pos, pattern)

\* the characters a text holds
Letters(s) == {s[i] : i \in 1 .. Len(s)}

\* sub in s and pattern.search(text), the text's characters being known: a
\* word is looked for only in a text that holds its first character
str_in_known(sub, s, letters) == sub = <<>> \/ (sub[1] \in letters /\ str_in(sub, s))

pattern_search_known(pattern, text, letters) ==
    /\ \E alt \in Head(pattern) : \E c \in letters : literal_ignore(alt[1], c)
    /\ pattern_search(pattern, text)

\* the words message_lower.startswith is given
QuestionWords == {<<"k_", "a_", "k_">>, <<"ch", "t_", "o_">>, <<"k_", "a_", "k_", "i_", "e_">>, <<"p_", "o_", "ch", "e_", "m_", "u_">>, <<"z_", "a_", "ch", "e_", "m_">>}

\* the words of has_reference_context
ReferenceWords == {<<"t_", "z_">>, <<"b_", "r_", "i_", "f_">>, <<"p_", "r_", "o_", "e_", "k_", "t_">>, <<"z_", "a_", "d_", "a_", "n_", "i_", "e_">>}

\* should_use_rag from message_lower = message.lower() on, letters being the
\* characters of message_lower
trigger(message, message_lower, letters) ==
    \/ \E keyword \in RAG_KEYWORDS : str_in_known(keyword, message_lower, letters)
    \/ \E k \in 1 .. Len(RAG_PATTERNS) : pattern_search_known(RAG_PATTERNS[k], message_lower, letters)
    \/ /\ \/ Contains(message, "?")
          \/ \E word \in QuestionWords : StartsWith(message_lower, word)
       /\ \E word \in ReferenceWords : str_in_known(word, message_lower, letters)

\* the same for a trigger that takes every question, whatever it is about
trigger_any_question(message, message_lower, letters) ==
    \/ \E keyword \in RAG_KEYWORDS : str_in_known(keyword, message_lower, letters)
    \/ \E k \in 1 .. Len(RAG_PATTERNS) : pattern_search_known(RAG_PATTERNS[k], message_lower, letters)
    \/ Contains(message, "?")
    \/ \E word \in QuestionWords : StartsWith(message_lower, word)

with_letters(message, message_lower) == trigger(message, message_lower, Letters(message_lower))

should_use_rag_any_question(message) ==
    trigger_any_question(message, lower(message), Letters(lower(message)))

\* AutoRAGService.should_use_rag
should_use_rag(message) == with_letters(message, lower(message))

\* VectorStoreManager.get_stats
get_stats(vs) ==
    [total_chunks |-> Len(vs.documents),
     sources |-> Cardinality({vs.documents[i].source : i \in 1 .. Len(vs.documents)})]

\* AutoRAGService.has_knowledge_base
has_knowledge_base(vs) == get_stats(vs).total_chunks > 0

\* an Optional[str]: None, or a text
NoContext == [none |-> TRUE, text |-> <<>>]
Context(text) == [none |-> FALSE, text |-> text]

\* the truth value of an Optional[str]
Truthy(c) == ~c.none /\ c.text # <<>>

\* top_k of get_rag_context
RagTopK == 3

RECURSIVE join_context_parts(_, _)
\* "\n\n---\n\n".join(context_parts), a part being f"[{source}]\n{doc}"
join_context_parts(documents, metadatas) ==
    IF documents = <<>> \/ metadatas = <<>> THEN <<>>
    ELSE LET part == <<"[">> \o Head(metadatas).source \o <<"]", "\n">> \o Head(documents)
         IN IF Len(documents) = 1 \/ Len(metadatas) = 1 THEN part
            ELSE part \o <<"\n", "\n", "-", "-", "-", "\n", "\n">>
                      \o join_context_parts(Tail(documents), Tail(metadatas))

\* get_rag_context after the search: None for no results, else the parts
context_of(results) ==
    IF results.documents = <<>> THEN NoContext
    ELSE Context(join_context_parts(results.documents, results.metadatas))

\* AutoRAGService.get_rag_context
get_rag_context(vs, query, top_k) == context_of(search(vs, query, top_k))

\* the auto-RAG lines after should_use_rag answered triggered
retrieval(vs, text, triggered) ==
    IF triggered /\ has_knowledge_base(vs)
    THEN [triggered |-> TRUE, searched |-> TRUE, rag_context |-> get_rag_context(vs, text, RagTopK)]
    ELSE [triggered |-> triggered, searched |-> FALSE, rag_context |-> NoContext]

\* a turn that asks the index whatever the trigger says
auto_rag_untriggered(vs, text) ==
    [retrieval(vs, text, TRUE) EXCEPT !.triggered = should_use_rag(text)]

\* handle_text, the auto-RAG lines: what the trigger said, whether
\* get_rag_context was called, and rag_context
auto_rag(vs, text) == retrieval(vs, text, should_use_rag(text))

\* SYSTEM_PROMPT and extraction_context, each a text the model does not look
\* into, written as one character
SYSTEM_PROMPT == <<"SYSTEM_PROMPT">>
ExtractionContext == <<"extraction_context">>

\* the heading handle_text puts between SYSTEM_PROMPT and rag_context
KnowledgeHeader == <<"\n", "\n", "K_", "O_", "N_", "T_", "E_", "K_", "S_", "T_", " ", "I_", "Z_", " ", "B_", "A_", "Z_", "Y_", " ", "Z_", "N_", "A_", "N_", "I_", "J_", ":", "\n">>

\* handle_text: system_prompt
system_prompt(rag_context, active) ==
    (IF Truthy(rag_context) THEN SYSTEM_PROMPT \o KnowledgeHeader \o rag_context.text
     ELSE SYSTEM_PROMPT)
       \o (IF active THEN ExtractionContext ELSE <<>>)

(***************************************************************************)
(* The handlers of main.py                                                 *)
(***************************************************************************)
MAX_INPUT_LENGTH == 10000
GoalCap == 1000
AudienceCap == 500
EntriesCap == 10
RisksCap == 5

Reply(kind, missing, buttons) == [kind |-> kind, missing |-> missing, buttons |-> buttons]

Say(kind) == reply' = Reply(kind, <<>>, <<>>)

\* features = [f.strip() for f in text.split("\n") if f.strip()], split on
\* commas instead when that leaves one entry with a comma in it
parse_list_entries(text) ==
    LET features == strip_nonempty(split(text, "\n"))
    IN IF Len(features) = 1 /\ Contains(features[1], ",")
       THEN strip_nonempty(split(features[1], ","))
       ELSE features

\* session.data.<field>.extend(entries): a str has no extend
extend_field(st, o, field, entries) ==
    IF field \notin st.h[o].lists THEN [st EXCEPT !.exc = "AttributeError"]
    ELSE [st EXCEPT !.h = extend_attr(@, o, field, entries)]

\* handle_text, the routing of an accepted message by current_step
store_free_text(st, u, text) ==
    LET o == st.s[u].data
        current_step == st.s[u].current_step
        done(w) == IF w.exc # "none" THEN w ELSE [w EXCEPT !.s[u].current_step = "details"]
    IN IF \/ current_step = "goal"
          \/ /\ st.h[o].project_goal = <<>>
             /\ current_step \notin {"features", "deliverables", "audience"}
       THEN done([st EXCEPT !.h[o] = setattr(@, "project_goal", Take(text, GoalCap), FALSE, {})])
       ELSE IF current_step = "features"
       THEN done(extend_field(st, o, "must_have_features", Take(parse_list_entries(text), EntriesCap)))
       ELSE IF current_step = "deliverables"
       THEN done(extend_field(st, o, "deliverables", Take(parse_list_entries(text), EntriesCap)))
       ELSE IF current_step = "audience"
       THEN done([st EXCEPT !.h[o] = setattr(@, "target_audience", Take(text, AudienceCap), FALSE, {})])
       ELSE IF current_step = "text"
       THEN done(IF st.h[o].project_goal = <<>>
                 THEN [st EXCEPT !.h[o] = setattr(@, "project_goal", Take(text, GoalCap), FALSE, {})]
                 ELSE st)
       ELSE st

\* handle_text from get_session to the last field write
record_text(st, u, text) ==
    LET g == get_session(st, u)
        logged == add_message(g, u, text)
    IN IF ~is_active(g, u) THEN g
       ELSE IF logged.exc # "none" THEN logged
       ELSE store_free_text(logged, u, text)

\* text.startswith("/")
IsCommand(text) == text # <<>> /\ Head(text) = "/"

\* validate_message_length(text)[0]
validate_message_length(text) == Len(text) <= MAX_INPUT_LENGTH

\* the handle_text coroutines that can stand at an await
FreeChats == {t \in ChatIds : tasks[t].pc = "free"}

\* handle_text from its first line to its await of bot.send_chat_action,
\* allowed being the answer of the admission check.  The F.text filter passes
\* only messages with a non-empty text.
text_turn(u, text, allowed) ==
    /\ text # <<>>
    /\ IF IsCommand(text) THEN UNCHANGED <<tasks, reply>>
       ELSE IF ~allowed THEN Say("rate_limited") /\ UNCHANGED tasks
       ELSE IF ~validate_message_length(text) THEN Say("too_long") /\ UNCHANGED tasks
       ELSE /\ FreeChats # {}
            /\ LET t == CHOOSE k \in FreeChats : \A j \in FreeChats : k <= j
               IN tasks' = [tasks EXCEPT ![t] = [pc |-> "typing", user |-> u, text |-> text]]
            /\ Say("typing")
    /\ UNCHANGED <<sessions, heap>>

\* a turn that records the text in the session before the checks refuse it
handle_text_recording_first(u, text) ==
    LET r == is_allowed(limiter, u, now)
    IN /\ text # <<>> /\ ~IsCommand(text)
       /\ ~r.allowed \/ ~validate_message_length(text)
       /\ Commit(record_text(Store, u, text), tasks)
       /\ Say(IF ~r.allowed THEN "rate_limited" ELSE "too_long")
       /\ limiter' = r.rl
       /\ UNCHANGED <<now, rendered, lastOp, gw, index, states>>

\* handle_text up to the typing indicator, with rate_limiter.is_allowed(user_id)
\* called where the handler calls it: after the command test
handle_text(u, text) ==
    LET r == is_allowed(limiter, u, now)
    IN /\ text_turn(u, text, r.allowed)
       /\ limiter' = IF IsCommand(text) THEN limiter ELSE r.rl
       /\ UNCHANGED <<now, rendered, lastOp, gw, index, states>>

\* what handle_text holds at its await of chat_completion: the answer a of the
\* auto-RAG lines, and messages and system_prompt as the call gets them.
\* chunks is the size of the index the lines looked at.
asking(u, text, g, a) ==
    [pc |-> "chat", user |-> u, text |-> text, chunks |-> Len(index.documents),
     triggered |-> a.triggered, searched |-> a.searched, rag_context |-> a.rag_context,
     messages |-> Append(get_history(states, u), [role |-> "user", content |-> text]),
     system_prompt |-> system_prompt(a.rag_context, is_active(g, u))]

\* the try block of handle_text up to the await of chat_completion, g being
\* the store after the session writes: an exception of the writes is answered
\* with the error text.  typing is FALSE when bot.send_chat_action raised: it
\* is awaited before the try block, so the handler ends there with nothing
\* written and no answer
recorded(t, typing, u, text, g) ==
    IF ~typing
    THEN Commit(Store, [tasks EXCEPT ![t] = NoTask]) /\ Say("none")
    ELSE IF g.exc # "none"
    THEN Commit(g, [tasks EXCEPT ![t] = NoTask]) /\ Say("error")
    ELSE /\ Commit(g, [tasks EXCEPT ![t] = asking(u, text, g, auto_rag(index, text))])
         /\ UNCHANGED reply

\* handle_text from the typing indicator to its await of chat_completion:
\* the session writes, the auto-RAG lines, the history read and the prompt
handle_text_record(t, typing) ==
    /\ tasks[t].pc = "typing"
    /\ typing /\ HasSession(sessions, tasks[t].user) /\ StatusOf(tasks[t].user) = "collecting"
          => Len(DataOf(tasks[t].user).raw_messages) < MaxMsgs
    /\ recorded(t, typing, tasks[t].user, tasks[t].text, record_text(Store, tasks[t].user, tasks[t].text))
    /\ UNCHANGED <<now, rendered, lastOp, gw, auxVars>>

\* the gateway's answer to every turn: one part for split_long_message
ResponseText == <<"o", "k">>

\* None, the content of a completion that carries no text: no str, written as
\* a sequence of one element that is no character
None == <<"None">>

\* what chat_completion returns: response.choices[0].message.content
Responses == {ResponseText, None}

\* how the awaited chat_completion ends: it returns, or it raises OpenAIError,
\* the one exception _retry_with_backoff lets out
TurnOutcomes == {"reply", "openai_error"}

\* the history has room for one more exchange, or is at its cap
HistoryRoom(u) ==
    LET n == Len(states[u].conversation_history)
    IN n < 2 * MaxMsgs \/ n >= MAX_HISTORY_LENGTH

\* handle_text from the return of chat_completion to its await of
\* message.answer(part): outcome "reply" when the call returned response,
\* "openai_error" when it raised OpenAIError, which is answered with its
\* text.  A returned response is written to the history before it is sent;
\* split_long_message(None) raises TypeError, which is answered with the error
\* text, the history staying written
handle_text_response(t, outcome, response) ==
    /\ tasks[t].pc = "chat"
    /\ outcome = "reply" => HistoryRoom(tasks[t].user)
    /\ outcome = "openai_error" => response = ResponseText
    /\ states' = IF outcome = "reply"
                 THEN record_exchange(states, tasks[t].user, tasks[t].text, response, now)
                 ELSE states
    /\ IF outcome = "reply" /\ response # None
       THEN /\ Commit(Store, [tasks EXCEPT ![t] = [pc |-> "answer", user |-> tasks[t].user]])
            /\ UNCHANGED reply
       ELSE /\ Commit(Store, [tasks EXCEPT ![t] = NoTask])
            /\ Say(IF outcome = "reply" THEN "error" ELSE "openai_error")
    /\ UNCHANGED <<now, rendered, lastOp, gw, limiter, index>>

\* handle_text from the return of message.answer(part) to its await of the
\* message.answer that carries the action buttons: the session is read here,
\* and the buttons are made for an active brief with a goal.  sent is FALSE
\* when message.answer raised, which is answered with the error text, as is
\* an exception of is_valid_for_generation
handle_text_answered(t, sent) ==
    /\ tasks[t].pc = "answer"
    /\ LET u == tasks[t].user
           is_ready == is_valid_for_generation(heap[ClassObj], DataOf(u))
       IN IF ~sent
          THEN Commit(Store, [tasks EXCEPT ![t] = NoTask]) /\ Say("error")
          ELSE IF is_active(Store, u) /\ DataOf(u).project_goal # <<>>
          THEN IF is_ready.exc # "none"
               THEN Commit(Store, [tasks EXCEPT ![t] = NoTask]) /\ Say("error")
               ELSE /\ Commit(Store, [tasks EXCEPT ![t] =
                          [pc |-> "actions", user |-> u,
                           reply_markup |-> get_summary_actions_keyboard(is_ready.value)]])
                    /\ Say("text_reply")
          ELSE Commit(Store, [tasks EXCEPT ![t] = NoTask]) /\ Say("text_reply")
    /\ UNCHANGED <<now, rendered, lastOp, gw, auxVars>>

\* handle_text from the return of the message.answer that carries the action
\* buttons: sent is FALSE when it raised, which is answered with the error
\* text
handle_text_actions(t, sent) ==
    /\ tasks[t].pc = "actions"
    /\ IF sent THEN reply' = Reply("actions", <<>>, tasks[t].reply_markup) ELSE Say("error")
    /\ Commit(Store, [tasks EXCEPT ![t] = NoTask])
    /\ UNCHANGED <<now, rendered, lastOp, gw, auxVars>>

\* cmd_new and cb_new_brief
start_new_brief(u) ==
    /\ Commit(start_session(Store, u), tasks)
    /\ states' = clear_history(states, u)
    /\ Say("new_brief")
    /\ UNCHANGED <<now, rendered, lastOp, gw, limiter, index>>

\* cmd_clear: the history goes, the brief session stays
cmd_clear(u) ==
    /\ states' = clear_history(states, u)
    /\ Say("history_cleared")
    /\ UNCHANGED <<sessions, heap, tasks, now, rendered, lastOp, gw, limiter, index>>

\* one call of user_state_manager.set_mode(u, mode)
SetMode(u, mode) ==
    /\ states' = set_mode(states, u, mode)
    /\ UNCHANGED <<sessVars, gw, limiter, index>>

cmd_cancel(u) ==
    /\ Commit(cancel_session(Store, u), tasks)
    /\ Say(IF HasSession(sessions, u) THEN "cancelled" ELSE "no_active_brief")
    /\ UNCHANGED <<now, rendered, lastOp, gw, auxVars>>

cb_cancel(u) ==
    /\ Commit(cancel_session(Store, u), tasks)
    /\ Say("cancelled")
    /\ UNCHANGED <<now, rendered, lastOp, gw, auxVars>>

cb_project_type(u, type_key) ==
    /\ Commit(update_brief_data(Store, u, <<Kw("project_type", Str(PROJECT_TYPE_MAP(type_key)))>>), tasks)
    /\ Say("ask_platform")
    /\ UNCHANGED <<now, rendered, lastOp, gw, auxVars>>

cb_platform(u, platform_key) ==
    /\ Commit(update_brief_data(Store, u, <<Kw("platform", Str(PLATFORM_MAP(platform_key)))>>), tasks)
    /\ Say("ask_deadline")
    /\ UNCHANGED <<now, rendered, lastOp, gw, auxVars>>

cb_deadline(u, deadline_key) ==
    /\ Commit(update_brief_data(Store, u, <<Kw("deadline", Str(DEADLINE_MAP(deadline_key)))>>), tasks)
    /\ Say("ask_budget")
    /\ UNCHANGED <<now, rendered, lastOp, gw, auxVars>>

cb_budget(u, budget_key) ==
    /\ Commit(update_brief_data(Store, u, <<Kw("budget_range", Str(BUDGET_MAP(budget_key)))>>), tasks)
    /\ Say("ask_goal")
    /\ UNCHANGED <<now, rendered, lastOp, gw, auxVars>>

cb_fill_field(u, field) ==
    /\ LET g == get_session(Store, u)
       IN Commit([g EXCEPT !.s[u].current_step = field], tasks)
    /\ Say("ask_field")
    /\ UNCHANGED <<now, rendered, lastOp, gw, auxVars>>

(***************************************************************************)
(* generate_final_tz: the part before its first await, then one step per   *)
(* await it resumes from.                                                  *)
(***************************************************************************)
FreeTasks == {t \in GenIds : tasks[t].pc = "free"}

\* session.data re-read at the point of use, after the awaits
live_brief_data(T, t) == sessions[T[t].user].data

\* brief_data = session.data, read once before the first await
captured_brief_data(T, t) == T[t].brief_data

\* generate_final_tz up to its first await: an answer that ends the turn, or
\* the status message.  An exception of get_missing_required leaves the
\* handler with no answer sent
generate_final_tz(u) ==
    LET g == get_session(Store, u)
        o == g.s[u].data
        missing_required == get_missing_required(g.h[ClassObj], g.h[o])
    IN /\ IF ~is_active(g, u)
          THEN Say("no_active_brief") /\ Commit(g, tasks)
          ELSE IF missing_required.exc # "none"
          THEN UNCHANGED reply /\ Commit(g, tasks)
          ELSE IF missing_required.value # <<>>
          THEN /\ reply' = Reply("missing_fields", missing_required.value,
                                 get_missing_fields_keyboard(missing_required.value))
               /\ Commit(g, tasks)
          ELSE /\ FreeTasks # {}
               /\ LET t == CHOOSE k \in FreeTasks : \A j \in FreeTasks : k <= j
                  IN Commit(g, [tasks EXCEPT ![t] = [pc |-> "status", user |-> u, brief_data |-> o]])
               /\ Say("generating")
       /\ UNCHANGED <<now, rendered, lastOp, gw, auxVars>>

\* the status message was sent: the history and the brief are read into the
\* analysis prompt, which the model does not keep, and chat_completion is
\* awaited; or sending the status message raised, which ends the handler
GenPrompt(t, sent) ==
    /\ tasks[t].pc = "status"
    /\ Commit(Store, [tasks EXCEPT ![t] = IF sent THEN [@ EXCEPT !.pc = "gateway"] ELSE NoTask])
    /\ UNCHANGED <<now, rendered, reply, lastOp, gw, auxVars>>

\* a failed gateway call that ends the session as a delivered document does
GenGatewayFailed_resetting(t) ==
    /\ tasks[t].pc = "gateway"
    /\ Commit(cancel_session(Store, tasks[t].user), [tasks EXCEPT ![t] = NoTask])
    /\ Say("generation_error")
    /\ UNCHANGED <<now, rendered, lastOp, gw, auxVars>>

\* openai_client.chat_completion raised OpenAIError
GenGatewayFailed(t) ==
    /\ tasks[t].pc = "gateway"
    /\ Commit(Store, [tasks EXCEPT ![t] = NoTask])
    /\ Say("generation_error")
    /\ UNCHANGED <<now, rendered, lastOp, gw, auxVars>>

\* chat_completion returned analysis: its risks and questions are stored and
\* the document is rendered, up to the await of status_msg.delete(); saved
\* tells whether generate_tz_docx returned or raised.  returned is FALSE when
\* analysis is None: the test "РИСКИ:" in analysis raises TypeError, which is
\* answered with the error text before anything is stored or rendered
GenRender(t, returned, risks, questions, saved) ==
    /\ tasks[t].pc = "gateway"
    /\ ~returned => risks = <<>> /\ questions = <<>> /\ saved
    /\ LET o == captured_brief_data(tasks, t)
           h2 == [heap EXCEPT ![o] = setattr(setattr(@, "risks", Take(risks, RisksCap), TRUE, {}),
                                             "open_questions", Take(questions, RisksCap), TRUE, {})]
           brief_data == to_dict(h2[o])
       IN IF ~returned
          THEN /\ Commit(Store, [tasks EXCEPT ![t] = NoTask])
               /\ Say("error") /\ UNCHANGED rendered
          ELSE IF brief_data.exc # "none"
          THEN /\ Commit([Store EXCEPT !.h = h2], [tasks EXCEPT ![t] = NoTask])
               /\ Say("error") /\ UNCHANGED rendered
          ELSE /\ rendered' = [called |-> TRUE, user |-> tasks[t].user, brief_data |-> brief_data.value]
               /\ Commit([Store EXCEPT !.h = h2],
                         [tasks EXCEPT ![t] = IF saved THEN [@ EXCEPT !.pc = "deleting"] ELSE NoTask])
               /\ IF saved THEN UNCHANGED reply ELSE Say("error")
    /\ UNCHANGED <<now, lastOp, gw, auxVars>>

\* the status message is gone, or deleting it raised, which is passed over:
\* the preview is sent
GenPreview(t) ==
    /\ tasks[t].pc = "deleting"
    /\ Commit(Store, [tasks EXCEPT ![t].pc = "preview"])
    /\ Say("preview")
    /\ UNCHANGED <<now, rendered, lastOp, gw, auxVars>>

\* the preview was sent and the document is sent after it, or sending the
\* preview raised
GenDocument(t, sent) ==
    /\ tasks[t].pc = "preview"
    /\ Commit(Store, [tasks EXCEPT ![t] = IF sent THEN [@ EXCEPT !.pc = "document"] ELSE NoTask])
    /\ Say(IF sent THEN "document" ELSE "error")
    /\ UNCHANGED <<now, rendered, lastOp, gw, auxVars>>

\* the document was sent and the session is cancelled, or sending it raised
GenFinish(t, sent) ==
    /\ tasks[t].pc = "document"
    /\ Commit(IF sent THEN cancel_session(Store, tasks[t].user) ELSE Store,
              [tasks EXCEPT ![t] = NoTask])
    /\ IF sent THEN UNCHANGED reply ELSE Say("error")
    /\ UNCHANGED <<now, rendered, lastOp, gw, auxVars>>

(***************************************************************************)
(* handle_voice and handle_photo with MessageRouter.route_voice and        *)
(* route_image (services/router.py) and the two media handlers, one step   *)
(* per await they resume from                                              *)
(***************************************************************************)
\* "hello", what the transcription of the voice message gives, the empty
\* transcription and one of white space
Hello == <<"h", "e", "l", "l", "o">>
Transcriptions == {<<>>, <<" ">>, Hello}

\* "logo", the caption of the photo, and no caption
Logo == <<"l", "o", "g", "o">>
Captions == {<<>>, Logo}

\* f"[Golosovoe soobshchenie]\n{transcription}"
voice_message(transcription) ==
    <<"[", "G_", "o_", "l_", "o_", "s_", "o_", "v_", "o_", "e_", " ",
      "s_", "o_", "o_", "b_", "sc", "e_", "n_", "i_", "e_", "]", "\n">> \o transcription

\* f"[Izobrazhenie]{' - ' + caption if caption else ''}"
image_message(caption) ==
    <<"[", "I_", "z_", "o_", "b_", "r_", "a_", "zh", "e_", "n_", "i_", "e_", "]">>
        \o (IF caption # <<>> THEN <<" ", "-", " ">> \o caption ELSE <<>>)

\* the handle_voice and handle_photo coroutines that can stand at an await
FreeMedia == {t \in MediaIds : tasks[t].pc = "free"}

\* handle_voice and handle_photo from the admission check to the router's
\* await of bot.send_chat_action; task is what the coroutine keeps
media_turn(u, task) ==
    LET r == is_allowed(limiter, u, now)
    IN /\ limiter' = r.rl
       /\ IF ~r.allowed THEN Say("rate_limited") /\ UNCHANGED tasks
          ELSE /\ FreeMedia # {}
               /\ LET t == CHOOSE k \in FreeMedia : \A j \in FreeMedia : k <= j
                  IN tasks' = [tasks EXCEPT ![t] = task]
               /\ Say("typing")

\* handle_voice up to route_voice's await of bot.send_chat_action
handle_voice(u) ==
    /\ media_turn(u, [pc |-> "voice_typing", user |-> u])
    /\ UNCHANGED <<sessions, heap, now, rendered, lastOp, gw, index, states>>

\* handle_photo up to route_image's await of bot.send_chat_action
handle_photo(u, caption) ==
    /\ media_turn(u, [pc |-> "image_typing", user |-> u, caption |-> caption])
    /\ UNCHANGED <<sessions, heap, now, rendered, lastOp, gw, index, states>>

\* route_voice from the typing indicator over its awaits of bot.get_file and
\* bot.download_file, which touch no state of the bot, to VoiceHandler.handle's
\* await of transcribe_audio; an exception of the two is answered by
\* route_voice's except.  typing is FALSE when bot.send_chat_action raised: it
\* is awaited before the try block, so route_voice ends there with no answer
route_voice_download(t, typing, fetched) ==
    /\ tasks[t].pc = "voice_typing"
    /\ ~typing => fetched
    /\ IF ~typing
       THEN tasks' = [tasks EXCEPT ![t] = NoTask] /\ Say("none")
       ELSE IF fetched
       THEN /\ tasks' = [tasks EXCEPT ![t] = [pc |-> "transcribe", user |-> tasks[t].user]]
            /\ UNCHANGED reply
       ELSE tasks' = [tasks EXCEPT ![t] = NoTask] /\ Say("voice_failed")
    /\ UNCHANGED <<sessions, heap, now, rendered, lastOp, gw, auxVars>>

\* VoiceHandler.handle from the return of transcribe_audio to its await of
\* chat_completion: transcribed is FALSE when the call raised.  A text handle
\* returns without the call goes through os.unlink to route_voice's await of
\* _send_response; unlinked is FALSE when os.unlink raised, which
\* route_voice's except answers
voice_transcribed(t, transcribed, transcription, unlinked) ==
    /\ tasks[t].pc = "transcribe"
    /\ transcribed /\ strip(transcription) # <<>> => unlinked
    /\ ~transcribed => transcription = <<>>
    /\ IF ~unlinked
       THEN tasks' = [tasks EXCEPT ![t] = NoTask] /\ Say("voice_failed")
       ELSE IF ~transcribed \/ strip(transcription) = <<>>
       THEN /\ tasks' = [tasks EXCEPT ![t] =
                  [pc |-> "voice_send", user |-> tasks[t].user,
                   response |-> IF transcribed THEN "voice_unrecognized" ELSE "voice_error"]]
            /\ UNCHANGED reply
       ELSE /\ tasks' = [tasks EXCEPT ![t] =
                  [pc |-> "voice_chat", user |-> tasks[t].user,
                   user_message |-> voice_message(transcription),
                   messages |-> Append(get_history(states, tasks[t].user),
                                       [role |-> "user", content |-> voice_message(transcription)])]]
            /\ UNCHANGED reply
    /\ UNCHANGED <<sessions, heap, now, rendered, lastOp, gw, auxVars>>

\* the awaited call of a voice or photo turn returned response, or it raised:
\* the two user_state_manager.add_message calls, and the text the handler
\* returns, response (None too, which an f-string takes) or the error text,
\* up to the route's await of _send_response.  passed is FALSE when a line
\* of the route before that await raised, which the route's except answers,
\* the history staying written
media_response(t, replied, response, passed, send_pc, reply_kind, error_kind, failed_kind) ==
    /\ replied => HistoryRoom(tasks[t].user)
    /\ ~replied => response = ResponseText
    /\ states' = IF replied
                 THEN record_exchange(states, tasks[t].user, tasks[t].user_message, response, now)
                 ELSE states
    /\ IF passed
       THEN /\ tasks' = [tasks EXCEPT ![t] =
                  [pc |-> send_pc, user |-> tasks[t].user,
                   response |-> IF replied THEN reply_kind ELSE error_kind]]
            /\ UNCHANGED reply
       ELSE tasks' = [tasks EXCEPT ![t] = NoTask] /\ Say(failed_kind)
    /\ UNCHANGED <<sessions, heap, now, rendered, lastOp, gw, limiter, index>>

\* VoiceHandler.handle from the return of chat_completion, through os.unlink,
\* to route_voice's await of _send_response; unlinked is FALSE when os.unlink
\* raised
voice_response(t, replied, response, unlinked) ==
    /\ tasks[t].pc = "voice_chat"
    /\ media_response(t, replied, response, unlinked, "voice_send", "voice_reply", "voice_error", "voice_failed")

\* MessageRouter._send_response returned, the text of the handler being
\* sent, or its message.answer raised (sent is FALSE), which the route's
\* except answers
send_response(t, sent, failed_kind) ==
    /\ tasks' = [tasks EXCEPT ![t] = NoTask]
    /\ Say(IF sent THEN tasks[t].response ELSE failed_kind)
    /\ UNCHANGED <<sessions, heap, now, rendered, lastOp, gw, auxVars>>

\* route_voice from the return of _send_response
voice_send_response(t, sent) ==
    /\ tasks[t].pc = "voice_send"
    /\ send_response(t, sent, "voice_failed")

\* route_image from the typing indicator over its awaits of bot.get_file and
\* bot.download_file to ImageHandler.handle's await of analyze_image.  typing
\* is FALSE when bot.send_chat_action raised: it is awaited before the try
\* block, so route_image ends there with no answer
route_image_download(t, typing, fetched) ==
    /\ tasks[t].pc = "image_typing"
    /\ ~typing => fetched
    /\ IF ~typing
       THEN tasks' = [tasks EXCEPT ![t] = NoTask] /\ Say("none")
       ELSE IF fetched
       THEN /\ tasks' = [tasks EXCEPT ![t] =
                  [pc |-> "analyze", user |-> tasks[t].user,
                   user_message |-> image_message(tasks[t].caption),
                   messages |-> get_history(states, tasks[t].user)]]
            /\ UNCHANGED reply
       ELSE tasks' = [tasks EXCEPT ![t] = NoTask] /\ Say("image_failed")
    /\ UNCHANGED <<sessions, heap, now, rendered, lastOp, gw, auxVars>>

\* ImageHandler.handle from the return of analyze_image to route_image's
\* await of _send_response
image_response(t, replied, response) ==
    /\ tasks[t].pc = "analyze"
    /\ media_response(t, replied, response, TRUE, "image_send", "image_reply", "image_error", "image_failed")

\* route_image from the return of _send_response
image_send_response(t, sent) ==
    /\ tasks[t].pc = "image_send"
    /\ send_response(t, sent, "image_failed")

(***************************************************************************)
(* MessageRouter.route_text (services/router.py), the router's own text    *)
(* turn over TextHandler.handle and RAGHandler.handle.  It has no          *)
(* admission check and no length check, and it writes no brief session.    *)
(***************************************************************************)
\* self.top_k of RAGHandler
HandlerTopK == 3

RECURSIVE unique_sources(_, _, _)
\* RAGHandler._format_context: the source of every (doc, meta) pair, each once,
\* in the order found
unique_sources(documents, metadatas, seen_sources) ==
    IF documents = <<>> \/ metadatas = <<>> THEN <<>>
    ELSE IF Head(metadatas).source \in seen_sources
    THEN unique_sources(Tail(documents), Tail(metadatas), seen_sources)
    ELSE <<[source |-> Head(metadatas).source]>>
            \o unique_sources(Tail(documents), Tail(metadatas),
                              seen_sources \cup {Head(metadatas).source})

RECURSIVE join_source_parts(_, _)
\* "\n\n---\n\n".join(context_parts), a part being f"[Istochnik: {source_name}]\n{doc}"
join_source_parts(documents, metadatas) ==
    IF documents = <<>> \/ metadatas = <<>> THEN <<>>
    ELSE LET part == <<"[", "I_", "s_", "t_", "o_", "ch", "n_", "i_", "k_", ":", " ">>
                         \o Head(metadatas).source \o <<"]", "\n">> \o Head(documents)
         IN IF Len(documents) = 1 \/ Len(metadatas) = 1 THEN part
            ELSE part \o <<"\n", "\n", "-", "-", "-", "\n", "\n">>
                      \o join_source_parts(Tail(documents), Tail(metadatas))

\* RAGHandler._format_context: search always gives a list under "documents",
\* so the context is the joined parts, empty for no result
format_context(search_results) ==
    [context |-> join_source_parts(search_results.documents, search_results.metadatas),
     sources |-> unique_sources(search_results.documents, search_results.metadatas, {})]

\* the turns of route_text explored: those that start with a history below
\* 2 * MaxMsgs entries
RouteRoom(u) == Len(states[u].conversation_history) < 2 * MaxMsgs

\* route_text up to its await of send_chat_action: a command is passed over;
\* the mode is read before the await
route_text(u, text) ==
    /\ text # <<>>
    /\ IF IsCommand(text) THEN UNCHANGED <<tasks, reply>>
       ELSE /\ FreeChats # {} /\ RouteRoom(u)
            /\ LET t == CHOOSE k \in FreeChats : \A j \in FreeChats : k <= j
               IN tasks' = [tasks EXCEPT ![t] =
                     [pc |-> "route_typing", user |-> u, text |-> text, mode |-> states[u].mode]]
            /\ Say("typing")
    /\ UNCHANGED <<sessions, heap, now, rendered, lastOp, gw, auxVars>>

\* what RAGHandler.handle and TextHandler.handle hold at their await of
\* chat_completion
route_asking(u, text, mode, found) ==
    [pc |-> "route_chat", user |-> u, text |-> text, mode |-> mode,
     context |-> found.context, sources |-> found.sources,
     messages |-> Append(get_history(states, u), [role |-> "user", content |-> text])]

\* route_text from the typing indicator into the handler of the mode, to its
\* await of chat_completion; RAGHandler.handle returns its text about an
\* empty knowledge base without the call, and route_text awaits
\* _send_response with it.  typing is FALSE when send_chat_action raised: it
\* is awaited before the try block, so route_text ends there with no answer
route_text_handle(t, typing) ==
    /\ tasks[t].pc = "route_typing"
    /\ IF ~typing
       THEN tasks' = [tasks EXCEPT ![t] = NoTask] /\ Say("none")
       ELSE IF tasks[t].mode = "rag" /\ get_stats(index).total_chunks = 0
       THEN /\ tasks' = [tasks EXCEPT ![t] =
                  [pc |-> "route_send", user |-> tasks[t].user, response |-> "rag_empty"]]
            /\ UNCHANGED reply
       ELSE /\ tasks' = [tasks EXCEPT ![t] =
                  route_asking(tasks[t].user, tasks[t].text, tasks[t].mode,
                               IF tasks[t].mode = "rag"
                               THEN format_context(search(index, tasks[t].text, HandlerTopK))
                               ELSE [context |-> <<>>, sources |-> <<>>])]
            /\ UNCHANGED reply
    /\ UNCHANGED <<sessions, heap, now, rendered, lastOp, gw, auxVars>>

\* the handler from the return of chat_completion to route_text's await of
\* _send_response: the two add_message calls, then the text the handler
\* returns.  RAGHandler.handle adds the sources to the response, which raises
\* for None and makes it return its error text; a None that is returned
\* fails in split_long_message before anything is awaited, which route_text's
\* except answers
route_text_response(t, replied, response) ==
    /\ tasks[t].pc = "route_chat"
    /\ ~replied => response = ResponseText
    /\ states' = IF replied
                 THEN record_exchange(states, tasks[t].user, tasks[t].text, response, now)
                 ELSE states
    /\ LET rag == tasks[t].mode = "rag"
           raised == ~replied \/ (rag /\ tasks[t].sources # <<>> /\ response = None)
       IN IF ~raised /\ response = None
          THEN tasks' = [tasks EXCEPT ![t] = NoTask] /\ Say("route_error")
          ELSE /\ tasks' = [tasks EXCEPT ![t] =
                     [pc |-> "route_send", user |-> tasks[t].user,
                      response |-> IF raised THEN (IF rag THEN "rag_error" ELSE "text_error")
                                   ELSE IF rag THEN "rag_reply" ELSE "text_reply"]]
               /\ UNCHANGED reply
    /\ UNCHANGED <<sessions, heap, now, rendered, lastOp, gw, limiter, index>>

\* route_text from the return of _send_response
route_text_send(t, sent) ==
    /\ tasks[t].pc = "route_send"
    /\ send_response(t, sent, "route_error")

BotUser == "u1"
ShopText == <<"s", "h", "o", "p">>
\* a risk of the analysis: a line longer than three characters
Risk == <<"r", "i", "s", "k">>

Next ==
    \/ start_new_brief(BotUser)
    \/ cmd_cancel(BotUser)
    \/ cb_cancel(BotUser)
    \/ cb_project_type(BotUser, "landing")
    \/ cb_platform(BotUser, "web")
    \/ handle_text(BotUser, ShopText)
    \/ \E t \in ChatIds, typing \in BOOLEAN : handle_text_record(t, typing)
    \/ \E t \in ChatIds, outcome \in TurnOutcomes, response \in Responses :
          handle_text_response(t, outcome, response)
    \/ \E t \in ChatIds, sent \in BOOLEAN : handle_text_answered(t, sent)
    \/ \E t \in ChatIds, sent \in BOOLEAN : handle_text_actions(t, sent)
    \/ generate_final_tz(BotUser)
    \/ \E t \in GenIds, sent \in BOOLEAN : GenPrompt(t, sent)
    \/ \E t \in GenIds : GenGatewayFailed(t)
    \/ \E t \in GenIds, returned, saved \in BOOLEAN :
          GenRender(t, returned, IF returned THEN <<Risk>> ELSE <<>>, <<>>, saved)
    \/ \E t \in GenIds : GenPreview(t)
    \/ \E t \in GenIds, sent \in BOOLEAN : GenDocument(t, sent)
    \/ \E t \in GenIds, sent \in BOOLEAN : GenFinish(t, sent)

Spec == Init /\ [][Next]_vars

(***************************************************************************)
(* The generation gate among every kind of turn of one user: the buttons,  *)
(* the focus, text, voice and photo messages, cancelling and starting      *)
(* over, each able to run between any two steps of a generation.  A text,  *)
(* voice or photo turn starts when no other of them is in flight, and its  *)
(* gateway call fails: what the call's return adds is the conversation     *)
(* history, which no step of a generation looks at.  Generations are       *)
(* requested until one of them has reached the renderer.                   *)
(***************************************************************************)
\* no text, voice or photo turn is in flight
Quiet == \A t \in ChatIds \cup MediaIds : tasks[t].pc = "free"

\* no generation has reached the renderer yet
Unrendered == ~rendered.called

NextGate ==
    \/ start_new_brief(BotUser)
    \/ cmd_cancel(BotUser)
    \/ cb_project_type(BotUser, "landing")
    \/ cb_platform(BotUser, "web")
    \/ cb_deadline(BotUser, "1w")
    \/ cb_budget(BotUser, "low")
    \/ cb_fill_field(BotUser, "goal")
    \/ Quiet /\ handle_voice(BotUser)
    \/ \E t \in MediaIds, typing, fetched \in BOOLEAN : route_voice_download(t, typing, fetched)
    \/ \E t \in MediaIds, transcribed, unlinked \in BOOLEAN, transcription \in Transcriptions :
          voice_transcribed(t, transcribed, transcription, unlinked)
    \/ \E t \in MediaIds, unlinked \in BOOLEAN : voice_response(t, FALSE, ResponseText, unlinked)
    \/ \E t \in MediaIds, sent \in BOOLEAN : voice_send_response(t, sent)
    \/ Quiet /\ handle_photo(BotUser, Logo)
    \/ \E t \in MediaIds, typing, fetched \in BOOLEAN : route_image_download(t, typing, fetched)
    \/ \E t \in MediaIds : image_response(t, FALSE, ResponseText)
    \/ \E t \in MediaIds, sent \in BOOLEAN : image_send_response(t, sent)
    \/ Quiet /\ handle_text(BotUser, ShopText)
    \/ \E t \in ChatIds, typing \in BOOLEAN : handle_text_record(t, typing)
    \/ \E t \in ChatIds : handle_text_response(t, "openai_error", ResponseText)
    \/ Unrendered /\ generate_final_tz(BotUser)
    \/ \E t \in GenIds, sent \in BOOLEAN : GenPrompt(t, sent)
    \/ \E t \in GenIds : GenGatewayFailed(t)
    \/ \E t \in GenIds, returned, saved \in BOOLEAN :
          GenRender(t, returned, IF returned THEN <<Risk>> ELSE <<>>, <<>>, saved)
    \/ \E t \in GenIds : GenPreview(t)
    \/ \E t \in GenIds, sent \in BOOLEAN : GenDocument(t, sent)
    \/ \E t \in GenIds, sent \in BOOLEAN : GenFinish(t, sent)

SpecGate == Init /\ [][NextGate]_vars

(***************************************************************************)
(* Free-text routing: one user fills a brief by focus buttons and messages. *)
(* The gateway call of every turn fails here, so that what a turn leaves is *)
(* what it wrote to the session before the call.                           *)
(***************************************************************************)
\* "Login\nSignup\nCheckout"
LinesText == <<"L", "o", "g", "i", "n", "\n", "S", "i", "g", "n", "u", "p", "\n", "C", "h", "e", "c", "k", "o", "u", "t">>

\* "Login, Signup"
CommaText == <<"L", "o", "g", "i", "n", ",", " ", "S", "i", "g", "n", "u", "p">>

\* eleven lines "a" .. "k"
ElevenText == <<"a", "\n", "b", "\n", "c", "\n", "d", "\n", "e", "\n", "f", "\n", "g", "\n", "h", "\n", "i", "\n", "j", "\n", "k">>

\* 1001 characters, longer than both caps
LongText == [i \in 1 .. (GoalCap + 1) |-> "x"]

Texts == {LinesText, CommaText, ElevenText, LongText}

NextText ==
    \/ start_new_brief(BotUser)
    \/ cmd_cancel(BotUser)
    \/ \E field \in FillFields : cb_fill_field(BotUser, field)
    \/ \E text \in Texts : handle_text(BotUser, text)
    \/ \E t \in ChatIds, typing \in BOOLEAN : handle_text_record(t, typing)
    \/ \E t \in ChatIds : handle_text_response(t, "openai_error", ResponseText)

SpecText == Init /\ [][NextText]_vars

(***************************************************************************)
(* One client serving gateway calls one after another                      *)
(***************************************************************************)
\* chat_completion, transcribe_audio or analyze_image enters the retry wrapper
GwCall(op) ==
    /\ gw.pc \in {"idle", "returned", "raised"}
    /\ gw.calls < MaxCalls
    /\ gw' = [gw EXCEPT !.pc = "loop", !.op = op, !.attempt = 0, !.results = <<>>, !.outcomes = <<>>,
                        !.waits = <<>>, !.error = "none", !.raised = 0,
                        !.calls = @ + 1, !.exc = "none",
                        !.prev = [error |-> gw.error, exc |-> gw.exc]]
    /\ UNCHANGED <<sessVars, auxVars>>

\* one pass of the loop body up to the return, the raise or the sleep, the
\* request ending with result
GwAttempt(result) ==
    /\ gw.pc = "loop"
    /\ in_range(gw)
    /\ LET outcome == except_clause(result)
           g == [gw EXCEPT !.results = Append(@, result), !.outcomes = Append(@, outcome)]
       IN gw' = IF outcome = "ok"
                THEN [g EXCEPT !.pc = "returned"]
                ELSE IF outcome \in Transient
                THEN [g EXCEPT !.pc = "sleep"]
                ELSE [g EXCEPT !.pc = "raised",
                               !.error = IF outcome = "APIError" THEN "api_error" ELSE "unexpected",
                               !.raised = @ + 1, !.exc = raised_type(outcome)]
    /\ UNCHANGED <<sessVars, auxVars>>

\* asyncio.sleep(wait_time) returns and the loop goes on
GwSleep ==
    /\ gw.pc = "sleep"
    /\ gw' = after_sleep(gw)
    /\ UNCHANGED <<sessVars, auxVars>>

\* the loop is over: raise OpenAIError(<service unavailable>)
GwExhausted ==
    /\ gw.pc = "loop"
    /\ ~in_range(gw)
    /\ gw' = [gw EXCEPT !.pc = "raised", !.error = "unavailable", !.raised = @ + 1,
                        !.exc = raised_type(IF gw.outcomes = <<>> THEN "none"
                                            ELSE gw.outcomes[Len(gw.outcomes)])]
    /\ UNCHANGED <<sessVars, auxVars>>

\* values of config.API_RETRY_DELAY, in seconds
RetryDelays == {API_RETRY_DELAY, 2 * API_RETRY_DELAY}

InitGateway ==
    /\ InitAux
    /\ sessions = [u \in Users |-> NoSession]
    /\ heap = NewHeap
    /\ tasks = [t \in TaskIds |-> NoTask]
    /\ now = 0
    /\ rendered = NoRender
    /\ reply = Reply("none", <<>>, <<>>)
    /\ lastOp = [op |-> "init", user |-> "u1", pre |-> "none"]
    /\ \E n \in 0 .. API_MAX_RETRIES, d \in RetryDelays :
          gw = [NewClient(n) EXCEPT !.retry_delay = d]

NextGateway ==
    \/ \E op \in GatewayOps : GwCall(op)
    \/ \E result \in Results : GwAttempt(result)
    \/ GwSleep
    \/ GwExhausted

SpecGateway == InitGateway /\ [][NextGateway]_vars

\* every await of the wrapper returns or raises: a request ends within the
\* client's timeout, a sleep ends after its delay
SpecGatewayLive ==
    /\ SpecGateway
    /\ WF_vars(\E result \in Results : GwAttempt(result))
    /\ WF_vars(GwSleep)
    /\ WF_vars(GwExhausted)

(***************************************************************************)
(* The rate limiter checked by two users as time passes                    *)
(***************************************************************************)
\* one call of rate_limiter.is_allowed(u)
Check(u) ==
    /\ limiter' = is_allowed(limiter, u, now).rl
    /\ UNCHANGED <<sessVars, gw, index, states>>

\* one call of rate_limiter.reset(u)
Reset(u) ==
    /\ limiter' = reset(limiter, u)
    /\ UNCHANGED <<sessVars, gw, index, states>>

\* values of the constructor's max_requests and window_seconds
MaxRequestsValues == {1, 2}
WindowValues == {1, 2}

InitLimiter ==
    /\ sessions = [u \in Users |-> NoSession]
    /\ heap = NewHeap
    /\ tasks = [t \in TaskIds |-> NoTask]
    /\ now = 0
    /\ rendered = NoRender
    /\ reply = Reply("none", <<>>, <<>>)
    /\ lastOp = [op |-> "init", user |-> "u1", pre |-> "none"]
    /\ gw = NewClient(API_MAX_RETRIES)
    /\ index = VectorStoreManager(RAG_CHUNK_SIZE, NoSnapshot, [d \in DirNames |-> NoDirectory])
    /\ \E m \in MaxRequestsValues, w \in WindowValues : limiter = RateLimiter(m, w)
    /\ states = UserStateManager

NextLimiter ==
    \/ Tick
    \/ \E u \in Users : Check(u)
    \/ \E u \in Users : Reset(u)

SpecLimiter == InitLimiter /\ [][NextLimiter]_vars

(***************************************************************************)
(* The message handlers with their admission check, next to the buttons    *)
(* and the final-document command                                          *)
(***************************************************************************)
InitAdmission ==
    /\ sessions = [u \in Users |-> NoSession]
    /\ heap = NewHeap
    /\ tasks = [t \in TaskIds |-> NoTask]
    /\ now = 0
    /\ rendered = NoRender
    /\ reply = Reply("none", <<>>, <<>>)
    /\ lastOp = [op |-> "init", user |-> "u1", pre |-> "none"]
    /\ gw = NewClient(API_MAX_RETRIES)
    /\ index = VectorStoreManager(RAG_CHUNK_SIZE, NoSnapshot, [d \in DirNames |-> NoDirectory])
    /\ limiter = RateLimiter(2, 1)
    /\ states = UserStateManager

NextAdmission ==
    \/ start_new_brief(BotUser)
    \/ cb_project_type(BotUser, "landing")
    \/ cb_platform(BotUser, "web")
    \/ cb_fill_field(BotUser, "goal")
    \/ cmd_clear(BotUser)
    \/ \E text \in {ShopText, <<"/", "x">>} : handle_text(BotUser, text)
    \/ \E t \in ChatIds, typing \in BOOLEAN : handle_text_record(t, typing)
    \/ \E t \in ChatIds, outcome \in TurnOutcomes, response \in Responses :
          handle_text_response(t, outcome, response)
    \/ \E t \in ChatIds, sent \in BOOLEAN : handle_text_answered(t, sent)
    \/ \E t \in ChatIds, sent \in BOOLEAN : handle_text_actions(t, sent)
    \/ handle_voice(BotUser)
    \/ \E t \in MediaIds, typing, fetched \in BOOLEAN : route_voice_download(t, typing, fetched)
    \/ \E t \in MediaIds, transcribed, unlinked \in BOOLEAN, transcription \in Transcriptions :
          voice_transcribed(t, transcribed, transcription, unlinked)
    \/ \E t \in MediaIds, replied, unlinked \in BOOLEAN, response \in Responses :
          voice_response(t, replied, response, unlinked)
    \/ \E t \in MediaIds, sent \in BOOLEAN : voice_send_response(t, sent)
    \/ \E caption \in Captions : handle_photo(BotUser, caption)
    \/ \E t \in MediaIds, typing, fetched \in BOOLEAN : route_image_download(t, typing, fetched)
    \/ \E t \in MediaIds, replied \in BOOLEAN, response \in Responses :
          image_response(t, replied, response)
    \/ \E t \in MediaIds, sent \in BOOLEAN : image_send_response(t, sent)
    \/ generate_final_tz(BotUser)
    \/ \E t \in GenIds, sent \in BOOLEAN : GenPrompt(t, sent)
    \/ \E t \in GenIds : GenGatewayFailed(t)

SpecAdmission == InitAdmission /\ [][NextAdmission]_vars

(***************************************************************************)
(* The index rebuilt and cleared over corpus directories that change       *)
(***************************************************************************)
\* corpus files: a.txt "aa\n\nbb", B.MD "cc", c.pdf "dd", d.txt that cannot be
\* read, e.txt of white space only, l.md "Ab. Cd. Ef"
FileA == [name |-> <<"a", ".", "t", "x", "t">>, readable |-> TRUE, content |-> <<"a", "a", "\n", "\n", "b", "b">>]
FileB == [name |-> <<"B", ".", "M", "D">>, readable |-> TRUE, content |-> <<"c", "c">>]
FileC == [name |-> <<"c", ".", "p", "d", "f">>, readable |-> TRUE, content |-> <<"d", "d">>]
FileD == [name |-> <<"d", ".", "t", "x", "t">>, readable |-> FALSE, content |-> <<>>]
FileE == [name |-> <<"e", ".", "t", "x", "t">>, readable |-> TRUE, content |-> <<" ", "\n">>]
FileL == [name |-> <<"l", ".", "m", "d">>, readable |-> TRUE, content |-> <<"A", "b", ".", " ", "C", "d", ".", " ", "E", "f">>]

\* u.TXT holds the Kelvin sign, a control character, a quote, a Windows line
\* end, a backslash and a tab; the name of FileS holds a byte that is no
\* UTF-8, which os.listdir gives as the surrogate U+DC80
FileU == [name |-> <<"u", ".", "T", "X", "T">>, readable |-> TRUE, content |-> <<"\\u212a", "\\x01", "\"", "\r", "\n", "\\", "\t", "b">>]
FileS == [name |-> <<"s", "\\udc80", ".", "t", "x", "t">>, readable |-> TRUE, content |-> <<"c", "c">>]

\* what os.listdir can return for a corpus directory
Listings == {<<>>, <<FileA, FileD, FileB>>, <<FileC, FileE, FileL, FileU>>, <<FileD>>, <<FileA, FileS, FileB>>}

\* values of RAG_CHUNK_SIZE in the environment
ChunkSizes == {4, 8}

\* await vector_store.index_documents(data_dir)
IndexDocuments(data_dir, outcome) ==
    /\ index' = index_documents(index, data_dir, outcome)
    /\ UNCHANGED <<sessVars, gw, limiter, states>>

\* vector_store.clear()
Clear(outcome) ==
    /\ index' = clear(index, outcome)
    /\ UNCHANGED <<sessVars, gw, limiter, states>>

\* the operator of the bot puts files into a corpus directory
WriteCorpus(data_dir, listing) ==
    /\ index' = [index EXCEPT !.dirs[data_dir] = [exists |-> TRUE, listing |-> listing]]
    /\ UNCHANGED <<sessVars, gw, limiter, states>>

\* the process is started again: VectorStoreManager() reads the snapshot;
\* result keeps what the file was like and how many documents the memory held
Restart ==
    /\ index' = [VectorStoreManager(index.chunk_size, index.snapshot, index.dirs)
                     EXCEPT !.result = [op |-> "_load_index", snapshot |-> index.snapshot.state,
                                        held |-> Len(index.documents)]]
    /\ UNCHANGED <<sessVars, gw, limiter, states>>

InitIndex ==
    /\ sessions = [u \in Users |-> NoSession]
    /\ heap = NewHeap
    /\ tasks = [t \in TaskIds |-> NoTask]
    /\ now = 0
    /\ rendered = NoRender
    /\ reply = Reply("none", <<>>, <<>>)
    /\ lastOp = [op |-> "init", user |-> "u1", pre |-> "none"]
    /\ gw = NewClient(API_MAX_RETRIES)
    /\ limiter = RateLimiter(0, 0)
    /\ states = UserStateManager
    /\ \E chunk_size \in ChunkSizes :
          index = VectorStoreManager(chunk_size, NoSnapshot, [d \in DirNames |-> NoDirectory])

NextIndex ==
    \/ \E data_dir \in DirNames, outcome \in SaveOutcomes : IndexDocuments(data_dir, outcome)
    \/ \E outcome \in SaveOutcomes : Clear(outcome)
    \/ \E data_dir \in DirNames, listing \in Listings : WriteCorpus(data_dir, listing)
    \/ Restart

SpecIndex == InitIndex /\ [][NextIndex]_vars

(***************************************************************************)
(* The chunker applied to every short text over a small alphabet           *)
(***************************************************************************)
MaxTextLen == 5

\* a letter, the two characters of a sentence end, the line break and the
\* character _split_text uses as its sentence mark
ChunkerAlphabet == {"a", ".", " ", "\n", "|"}

ChunkerTexts == UNION {[1 .. n -> ChunkerAlphabet] : n \in 0 .. MaxTextLen}

\* values of RAG_CHUNK_SIZE in the environment
ChunkerSizes == {2, 4}

\* a store built with chunk size chunk_size, and a text about to be split
InitChunker ==
    /\ sessions = [u \in Users |-> NoSession]
    /\ heap = NewHeap
    /\ tasks = [t \in TaskIds |-> NoTask]
    /\ now = 0
    /\ rendered = NoRender
    /\ reply = Reply("none", <<>>, <<>>)
    /\ lastOp = [op |-> "init", user |-> "u1", pre |-> "none"]
    /\ gw = NewClient(API_MAX_RETRIES)
    /\ limiter = RateLimiter(0, 0)
    /\ states = UserStateManager
    /\ \E chunk_size \in ChunkerSizes, text \in ChunkerTexts :
          index = [VectorStoreManager(chunk_size, NoSnapshot, [d \in DirNames |-> NoDirectory])
                       EXCEPT !.result = [op |-> "content", text |-> text]]

\* chunks = self._split_text(content)
SplitText ==
    /\ index.result.op = "content"
    /\ index' = [index EXCEPT !.result = [op |-> "_split_text", text |-> index.result.text,
                                          chunks |-> split_text(index.result.text, index.chunk_size)]]
    /\ UNCHANGED <<sessVars, gw, limiter, states>>

NextChunker == SplitText

SpecChunker == InitChunker /\ [][NextChunker]_vars

(***************************************************************************)
(* The index searched between rebuilds, clears and restarts                *)
(***************************************************************************)
\* corpus files: p.txt "cat dog\n\ncat cat\n\ndog" and q.md "Dog, CAT!\n\nit is"
FileP == [name |-> <<"p", ".", "t", "x", "t">>, readable |-> TRUE, content |-> <<"c", "a", "t", " ", "d", "o", "g", "\n", "\n", "c", "a", "t", " ", "c", "a", "t", "\n", "\n", "d", "o", "g">>]
FileQ == [name |-> <<"q", ".", "m", "d">>, readable |-> TRUE, content |-> <<"D", "o", "g", ",", " ", "C", "A", "T", "!", "\n", "\n", "i", "t", " ", "i", "s">>]

\* r.md, one paragraph: "emu" sixteen times, between tabs, a control character
\* and blanks, then "Kelvin" written with the Kelvin sign, and a Greek word in
\* capitals in quotes
FileR == [name |-> <<"r", ".", "m", "d">>, readable |-> TRUE, content |-> <<"e", "m", "u", "\t", "e", "m", "u", "\\x01", "e", "m", "u", " ", "e", "m", "u", " ", "e", "m", "u", " ", "e", "m", "u", " ", "e", "m", "u", " ", "e", "m", "u", " ", "e", "m", "u", " ", "e", "m", "u", " ", "e", "m", "u", " ", "e", "m", "u", " ", "e", "m", "u", " ", "e", "m", "u", " ", "e", "m", "u", " ", "e", "m", "u", " ", "\\u212a", "e", "l", "v", "i", "n", " ", "\"", "\\u039f", "\\u0394", "\\u039f", "\\u03a3", "\"">>]

SearchListings == {<<>>, <<FileP>>, <<FileP, FileR, FileQ>>, <<FileQ, FileD, FileP>>}

\* values of RAG_CHUNK_SIZE in the environment
SearchChunkSizes == {8, 20}

\* "dog", "cat dog", "CAT cat", "it is" (no word longer than two letters),
\* "emu" (in r.md only), "KELVIN emu", "a", the capital I with a dot above, "b"
\* (lowered it is "ai", a combining dot and "b": no word longer than two
\* letters), the Greek word of r.md in small letters
Queries == {<<"d", "o", "g">>, <<"c", "a", "t", " ", "d", "o", "g">>, <<"C", "A", "T", " ", "c", "a", "t">>, <<"i", "t", " ", "i", "s">>, <<"e", "m", "u">>,
            <<"K", "E", "L", "V", "I", "N", " ", "e", "m", "u">>, <<"a", "\\u0130", "b">>, <<"\\u03bf", "\\u03b4", "\\u03bf", "\\u03c2">>}

\* values of n_results
MaxResults == 2

\* config.DATA_DIR, the directory cmd_index rebuilds from
CorpusDir == "data"

\* vector_store.search(query, n_results); result keeps the answer, the
\* documents the call found in the index and the call that came before
Search(query, n_results) ==
    /\ index' = [index EXCEPT !.result = [op |-> "search", query |-> query, n_results |-> n_results,
                                          found |-> search(index, query, n_results),
                                          seen |-> index.documents,
                                          after |-> index.result.op]]
    /\ UNCHANGED <<sessVars, gw, limiter, states>>

InitSearch ==
    /\ sessions = [u \in Users |-> NoSession]
    /\ heap = NewHeap
    /\ tasks = [t \in TaskIds |-> NoTask]
    /\ now = 0
    /\ rendered = NoRender
    /\ reply = Reply("none", <<>>, <<>>)
    /\ lastOp = [op |-> "init", user |-> "u1", pre |-> "none"]
    /\ gw = NewClient(API_MAX_RETRIES)
    /\ limiter = RateLimiter(0, 0)
    /\ states = UserStateManager
    /\ \E chunk_size \in SearchChunkSizes :
          index = VectorStoreManager(chunk_size, NoSnapshot, [d \in DirNames |-> NoDirectory])

NextSearch ==
    \/ \E listing \in SearchListings : WriteCorpus(CorpusDir, listing)
    \/ \E outcome \in {"ok", "write_failed"} : IndexDocuments(CorpusDir, outcome)
    \/ Clear("ok")
    \/ Restart
    \/ \E query \in Queries, n_results \in 1 .. MaxResults : Search(query, n_results)

SpecSearch == InitSearch /\ [][NextSearch]_vars

(***************************************************************************)
(* A chunk scored against a query before and after a query token is added  *)
(***************************************************************************)
\* the longest chunk, in words
MaxWords == 3

\* the words of the chunks: "cat", "dog", "emu" and "it", which is too short
\* to be a token
ScoreWords == {<<"c", "a", "t">>, <<"d", "o", "g">>, <<"e", "m", "u">>, <<"i", "t">>}

RECURSIVE join_words(_)
\* " ".join(words)
join_words(words) ==
    IF words = <<>> THEN <<>>
    ELSE IF Len(words) = 1 THEN words[1]
    ELSE words[1] \o <<" ">> \o join_words(Tail(words))

ScoreChunks == {join_words(words) : words \in UNION {[1 .. n -> ScoreWords] : n \in 0 .. MaxWords}}

\* "cat", "Dog cat", "emu it"
ScoreQueries == {<<"c", "a", "t">>, <<"D", "o", "g", " ", "c", "a", "t">>, <<"e", "m", "u", " ", "i", "t">>}

\* a chunk, a query and one of the query's tokens, about to be scored
InitScore ==
    /\ sessions = [u \in Users |-> NoSession]
    /\ heap = NewHeap
    /\ tasks = [t \in TaskIds |-> NoTask]
    /\ now = 0
    /\ rendered = NoRender
    /\ reply = Reply("none", <<>>, <<>>)
    /\ lastOp = [op |-> "init", user |-> "u1", pre |-> "none"]
    /\ gw = NewClient(API_MAX_RETRIES)
    /\ limiter = RateLimiter(0, 0)
    /\ states = UserStateManager
    /\ \E chunk \in ScoreChunks, query \in ScoreQueries :
          \E k \in 1 .. Len(tokenize(query)) :
             index = [VectorStoreManager(RAG_CHUNK_SIZE, NoSnapshot, [d \in DirNames |-> NoDirectory])
                          EXCEPT !.result = [op |-> "chunk", chunk |-> chunk, query |-> query,
                                             token |-> tokenize(query)[k]]]

\* self._calculate_relevance(query_tokens, doc["content"]) for the chunk and
\* for the chunk with the token added at its end
CalculateRelevance ==
    /\ index.result.op = "chunk"
    /\ LET r == index.result
           query_tokens == tokenize(r.query)
           more == IF r.chunk = <<>> THEN r.token ELSE r.chunk \o <<" ">> \o r.token
       IN index' = [index EXCEPT !.result = [op |-> "_calculate_relevance", chunk |-> r.chunk,
                                             query |-> r.query, token |-> r.token, more |-> more,
                                             score |-> calculate_relevance(query_tokens, r.chunk),
                                             score_more |-> calculate_relevance(query_tokens, more)]]
    /\ UNCHANGED <<sessVars, gw, limiter, states>>

NextScore == CalculateRelevance

SpecScore == InitScore /\ [][NextScore]_vars

(***************************************************************************)
(* Text turns that ask the knowledge base, over a corpus that changes      *)
(***************************************************************************)
\* corpus file k.md, two paragraphs: "brif i tz" and "srok proekta"
FileK == [name |-> <<"k", ".", "m", "d">>, readable |-> TRUE, content |-> <<"b_", "r_", "i_", "f_", " ", "i_", " ", "t_", "z_", "\n", "\n", "s_", "r_", "o_", "k_", " ", "p_", "r_", "o_", "e_", "k_", "t_", "a_">>]

\* what the users write: utterances read off by eye
PlainUtterances ==
    {<<"k_", "a_", "k_", " ", "p_", "r_", "a_", "v_", "i_", "l_", "q_", "n_", "o_", " ", "s_", "o_", "s_", "t_", "a_", "v_", "i_", "t_", "q_", " ", "b_", "r_", "i_", "f_", "?">>,
     <<"d_", "a_", ",", " ", "p_", "o_", "d_", "h_", "o_", "d_", "i_", "t_">>,
     <<"SH", "a_", "b_", "l_", "o_", "n_">>,
     <<"ch", "t_", "o_", " ", " ", "d_", "o_", "l_", "zh", "n_", "o_", " ", "b_", "y_", "t_", "q_">>,
     <<"k_", "a_", "k_", "o_", "j_", " ", "s_", "r_", "o_", "k_", " ", "u_", " ", "p_", "r_", "o_", "e_", "k_", "t_", "a_", "?">>,
     <<"Z_", "a_", "ch", "e_", "m_", " ", "eh", "t_", "o_", "t_", " ", "p_", "r_", "o_", "e_", "k_", "t_">>,
     <<"n_", "a_", "sh", " ", "p_", "r_", "o_", "e_", "k_", "t_", " ", "p_", "r_", "o_", " ", "m_", "a_", "g_", "a_", "z_", "i_", "n_">>,
     <<"s_", "k_", "o_", "l_", "q_", "k_", "o_", " ", "s_", "t_", "o_", "i_", "t_", "?">>,
     <<"k_", "a_", "k_", "a_", "o_", " ", "d_", "l_", "ya", " ", "p_", "r_", "o_", "e_", "k_", "t_", "a_">>,
     <<"v_", " ", "ch", "yo", "m_", "\n", "r_", "a_", "z_", "n_", "i_", "c_", "a_">>,
     <<"s_", "r_", "o_", "k_", " ", "d_", "v_", "e_", " ", "n_", "e_", "d_", "e_", "l_", "i_">>,
     <<"eh", "t_", "o_", " ", "T_", "Z_">>, <<"R", "e", "d", " ", "F", "l", "a", "g">>,
     <<"d_", "o_", "b_", "a_", "v_", "q_", " ", "o_", "p_", "l_", "a_", "t_", "u_", " ", "k_", "a_", "r_", "t_", "o_", "j_">>,
     <<"ch", "t_", "o_", "?">>}

\* utterances put together from a way to open, a matter and a way to end
Openers == {<<>>, <<"k_", "a_", "k_", " ">>, <<"Z_", "a_", "ch", "e_", "m_", " ">>}

Matters ==
    {<<"sh", "a_", "b_", "l_", "o_", "n_">>,
     <<"n_", "u_", "zh", "n_", "o_", " ", "d_", "e_", "l_", "a_", "t_", "q_">>,
     <<"u_", " ", "p_", "r_", "o_", "e_", "k_", "t_", "a_">>,
     <<"o_", "p_", "l_", "a_", "t_", "a_">>,
     <<"l_", "u_", "ch", "sh", "e_", " ", "t_", "a_", "k_">>,
     <<"z_", "a_", "d_", "a_", "n_", "i_", "e_">>}

Enders == {<<>>, <<"?">>}

BuiltUtterances == {o \o m \o e : o \in Openers, m \in Matters, e \in Enders}

\* utterances with characters that change under lower() or when case is
\* ignored, a no-break space and a full-width question mark
ForeignUtterances ==
    {<<"c", "h", "e", "c", "\\u212a", "l", "i", "s", "t">>,
     <<"\\u1c80", " ", "ch", "yo", "m_", " ", "r_", "a_", "z_", "n_", "i_", "c_", "a_">>,
     <<"ch", "t_", "o_", "\\xa0", "t_", "a_", "k_", "o_", "e_">>,
     <<"p_", "r_", "o_", "e_", "k_", "t_", " ", "g_", "o_", "t_", "o_", "v_", "\\uff1f">>,
     <<"D", "E", "L", "\\u0130", "V", "E", "R", "A", "B", "L", "E">>}

Utterances == PlainUtterances \cup BuiltUtterances \cup ForeignUtterances

InitAutoRag ==
    /\ sessions = [u \in Users |-> NoSession]
    /\ heap = NewHeap
    /\ tasks = [t \in TaskIds |-> NoTask]
    /\ now = 0
    /\ rendered = NoRender
    /\ reply = Reply("none", <<>>, <<>>)
    /\ lastOp = [op |-> "init", user |-> "u1", pre |-> "none"]
    /\ gw = NewClient(API_MAX_RETRIES)
    /\ index = VectorStoreManager(RAG_CHUNK_SIZE, NoSnapshot, [d \in DirNames |-> NoDirectory])
    /\ limiter = RateLimiter(1, 1)
    /\ states = UserStateManager

NextAutoRag ==
    \/ \E listing \in {<<>>, <<FileK>>} : WriteCorpus(CorpusDir, listing)
    \/ IndexDocuments(CorpusDir, "ok")
    \/ Clear("ok")
    \/ start_new_brief(BotUser)
    \/ \E text \in Utterances \cup {<<"/", "x">>} : handle_text(BotUser, text)
    \/ \E t \in ChatIds, typing \in BOOLEAN : handle_text_record(t, typing)
    \/ \E t \in ChatIds, outcome \in TurnOutcomes, response \in Responses :
          handle_text_response(t, outcome, response)
    \/ \E t \in ChatIds, sent \in BOOLEAN : handle_text_answered(t, sent)
    \/ \E t \in ChatIds, sent \in BOOLEAN : handle_text_actions(t, sent)

SpecAutoRag == InitAutoRag /\ [][NextAutoRag]_vars

(***************************************************************************)
(* A brief with any of its tracked fields filled, asked how complete it is *)
(***************************************************************************)
\* the fields get_completion_percent looks at
TrackedFields == {"project_goal", "project_type", "platform", "deadline", "budget_range",
                  "deliverables", "must_have_features"}

\* a BriefData with the fields of filled set: a scalar to "x", a list to ["x"]
FilledData(filled) ==
    [f \in DOMAIN BriefData |-> IF f \notin DataFields THEN BriefData[f]
                                ELSE IF f \notin filled THEN <<>>
                                ELSE IF f \in ListFields THEN << <<"x">> >> ELSE <<"x">>]

\* a session being collected whose brief holds some of the tracked fields
InitPercent ==
    /\ InitAux
    /\ now = 0
    /\ \E filled \in SUBSET TrackedFields :
          /\ sessions = [u \in Users |-> IF u = ApiUser
                                         THEN [BriefSession(1) EXCEPT !.status = "collecting"]
                                         ELSE NoSession]
          /\ heap = [NewHeap EXCEPT ![1] = FilledData(filled)]
    /\ tasks = [t \in TaskIds |-> NoTask]
    /\ rendered = NoRender
    /\ reply = [kind |-> "none", missing |-> <<>>, buttons |-> <<>>]
    /\ lastOp = [op |-> "init", user |-> "u1", pre |-> "none"]
    /\ gw = NewClient(API_MAX_RETRIES)

\* session.data.get_completion_percent(), get_missing_required() and
\* is_valid_for_generation() of the user's brief
GetCompletionPercent(u) ==
    /\ lastOp.op # "get_completion_percent"
    /\ lastOp' = [op |-> "get_completion_percent", user |-> u, pre |-> sessions[u].status,
                  percent |-> get_completion_percent(heap[ClassObj], DataOf(u)),
                  missing_required |-> get_missing_required(heap[ClassObj], DataOf(u)),
                  valid |-> is_valid_for_generation(heap[ClassObj], DataOf(u))]
    /\ UNCHANGED <<sessions, heap, tasks, now, rendered, reply, gw, auxVars>>

NextPercent ==
    \/ GetCompletionPercent(ApiUser)
    \/ \E key \in ClassLists : ApiUpdateBriefData(ApiUser, <<Kw(key, Str(ApiStr))>>)

SpecPercent == InitPercent /\ [][NextPercent]_vars

(***************************************************************************)
(* Two users driving the session registry and the rate limiter in turn     *)
(***************************************************************************)
OtherUser == "u2"
OtherStr == <<"y">>

InitUsers ==
    /\ sessions = [u \in Users |-> NoSession]
    /\ heap = NewHeap
    /\ tasks = [t \in TaskIds |-> NoTask]
    /\ now = 0
    /\ rendered = NoRender
    /\ reply = [kind |-> "none", missing |-> <<>>, buttons |-> <<>>]
    /\ lastOp = [op |-> "init", user |-> "u1", pre |-> "none"]
    /\ gw = NewClient(API_MAX_RETRIES)
    /\ index = VectorStoreManager(RAG_CHUNK_SIZE, NoSnapshot, [d \in DirNames |-> NoDirectory])
    /\ limiter = RateLimiter(1, 1)
    /\ states = UserStateManager

NextUsers ==
    \/ ApiGetSession(ApiUser)
    \/ \E u \in Users : ApiStartSession(u)
    \/ ApiCancelSession(ApiUser)
    \/ ApiAddMessage(ApiUser, ApiStr)
    \/ ApiMarkReady(ApiUser)
    \/ ApiUpdateBriefData(ApiUser, <<Kw("platform", Str(ApiStr))>>)
    \/ ApiUpdateBriefData(ApiUser, <<Kw("REQUIRED_FIELDS", Str(ApiStr))>>)
    \/ ApiSetBriefField(ApiUser, "project_goal", Str(ApiStr))
    \/ ApiSetBriefField(OtherUser, "project_goal", Str(OtherStr))
    \/ \E u \in Users : ApiSetBriefField(u, "must_have_features", Held(ApiList))
    \/ ApiAddToListField(OtherUser, "must_have_features", OtherStr)
    \/ \E u \in Users : Check(u)

SpecUsers == InitUsers /\ [][NextUsers]_vars

(***************************************************************************)
(* A text turn from the message to its last answer, one step per await of  *)
(* handle_text, /clear and the mode switch able to run between any two;    *)
(* beside it the router's own text turn, route_text, which writes the same *)
(* history                                                                 *)
(***************************************************************************)
\* "kak pravilqno sostavitq brif?", a question the trigger sends to the index
TurnQuestion == <<"k_", "a_", "k_", " ", "p_", "r_", "a_", "v_", "i_", "l_", "q_", "n_", "o_", " ", "s_", "o_", "s_", "t_", "a_", "v_", "i_", "t_", "q_", " ", "b_", "r_", "i_", "f_", "?">>

\* one character more than MAX_INPUT_LENGTH
TooLongText == [i \in 1 .. MAX_INPUT_LENGTH |-> "x"] \o <<"x">>

TurnTexts == {TurnQuestion, TooLongText, <<"/", "x">>}

\* ten earlier turns, the history at its cap
FullHistory ==
    [i \in 1 .. MAX_HISTORY_LENGTH |->
        [role |-> IF i % 2 = 1 THEN "user" ELSE "assistant",
         content |-> IF i % 2 = 1 THEN ShopText ELSE ResponseText,
         timestamp |-> ((i - 1) \div 2) - (MAX_HISTORY_LENGTH \div 2)]]

InitTurn ==
    /\ sessions = [u \in Users |-> NoSession]
    /\ heap = NewHeap
    /\ tasks = [t \in TaskIds |-> NoTask]
    /\ now = 0
    /\ rendered = NoRender
    /\ reply = Reply("none", <<>>, <<>>)
    /\ lastOp = [op |-> "init", user |-> "u1", pre |-> "none"]
    /\ gw = NewClient(API_MAX_RETRIES)
    /\ index = VectorStoreManager(RAG_CHUNK_SIZE, NoSnapshot, [d \in DirNames |-> NoDirectory])
    /\ limiter = RateLimiter(2, 1)
    /\ \E h \in {<<>>, FullHistory} :
          states = [UserStateManager EXCEPT ![BotUser].conversation_history = h]

NextTurn ==
    \/ WriteCorpus(CorpusDir, <<FileK>>)
    \/ IndexDocuments(CorpusDir, "ok")
    \/ start_new_brief(BotUser)
    \/ cmd_clear(BotUser)
    \/ \E mode \in Modes : SetMode(BotUser, mode)
    \/ cb_fill_field(BotUser, "features")
    \/ \E text \in TurnTexts : handle_text(BotUser, text)
    \/ \E t \in ChatIds, typing \in BOOLEAN : handle_text_record(t, typing)
    \/ \E t \in ChatIds, outcome \in TurnOutcomes, response \in Responses :
          handle_text_response(t, outcome, response)
    \/ \E t \in ChatIds, sent \in BOOLEAN : handle_text_answered(t, sent)
    \/ \E t \in ChatIds, sent \in BOOLEAN : handle_text_actions(t, sent)
    \/ \E text \in {TurnQuestion, <<"/", "x">>} : route_text(BotUser, text)
    \/ \E t \in ChatIds, typing \in BOOLEAN : route_text_handle(t, typing)
    \/ \E t \in ChatIds, replied \in BOOLEAN, response \in Responses : route_text_response(t, replied, response)
    \/ \E t \in ChatIds, sent \in BOOLEAN : route_text_send(t, sent)

SpecTurn == InitTurn /\ [][NextTurn]_vars

(***************************************************************************)
(* Properties                                                              *)
(***************************************************************************)
RequiredNames == <<"project_goal", "project_type", "platform">>

\* the required fields that are empty in d, in the order of RequiredNames
EmptyRequired(d) == SelectSeq(RequiredNames, LAMBDA f : d[f] = <<>>)

Names(pairs) == [i \in 1 .. Len(pairs) |-> pairs[i][1]]

\* C1 (SpecGate): whenever the document renderer has been invoked, the brief data
\* it was given had a non-empty project_goal, project_type and platform, whatever
\* turns of the user ran while the generation awaited the gateway.
C1_RenderedComplete ==
    rendered.called => \A f \in {"project_goal", "project_type", "platform"} :
                           rendered.brief_data[f] # <<>>

\* a document was rendered for a generation still in flight whose brief is no
\* longer the session's: another turn replaced the session's data meanwhile
C1_Witness ==
    /\ rendered.called
    /\ \E t \in GenIds : /\ tasks[t].pc = "deleting"
                         /\ sessions[tasks[t].user].data # tasks[t].brief_data
                         /\ DataOf(tasks[t].user).project_goal = <<>>

\* C2 (SpecApi): after start(), from whatever state it was called in, the session
\* is Collecting, every BriefData field (the raw-message log too) is empty and
\* the focus pointer is the first collection step, project_type.
C2_StartResets ==
    lastOp.op = "start" =>
        /\ StatusOf(lastOp.user) = "collecting"
        /\ \A f \in DataFields : DataOf(lastOp.user)[f] = <<>>
        /\ DataOf(lastOp.user) = BriefData
        /\ sessions[lastOp.user].current_step = "project_type"

\* start() was called on a Ready session, whose required fields were filled
C2_Witness == lastOp.op = "start" /\ lastOp.pre = "ready"

\* C3 (SpecApi): markReady() sets the status to Ready exactly when the status is
\* Collecting and no required field is missing, and otherwise changes nothing.
C3_MarkReadyOnlyWhenCollecting ==
    [][ApiMarkReady(ApiUser) =>
          IF StatusOf(ApiUser) = "collecting" /\ EmptyRequired(DataOf(ApiUser)) = <<>>
          THEN /\ sessions' = [sessions EXCEPT ![ApiUser].status = "ready"]
               /\ heap' = heap
          ELSE UNCHANGED <<sessions, heap>>]_vars

\* C4 (SpecAttrs): after cancel() from Collecting or Ready the session is Idle
\* and its BriefData is discarded: every scalar and list field is empty and the
\* completion percent is 0.
C4_CancelDiscards ==
    lastOp.op = "cancel" /\ lastOp.pre \in {"collecting", "ready"} =>
        LET percent == get_completion_percent(heap[ClassObj], DataOf(lastOp.user))
        IN /\ StatusOf(lastOp.user) = "idle"
           /\ \A f \in DataFields : DataOf(lastOp.user)[f] = <<>>
           /\ percent.exc = "none" /\ percent.value = 0

\* C5 (SpecApi): recording a message leaves the raw-message log unchanged unless
\* the session is Collecting, and always sets the last-activity marker.
C5_RecordMessage ==
    [][ApiAddMessage(ApiUser, ApiStr) =>
          /\ StatusOf(ApiUser) # "collecting" =>
                 heap'[sessions'[ApiUser].data].raw_messages = DataOf(ApiUser).raw_messages
          /\ sessions'[ApiUser].updated_at = now]_vars

\* the brief field a focus value names
FocusField(F) ==
    CASE F = "goal" -> "project_goal"
      [] F = "project_type" -> "project_type"
      [] F = "platform" -> "platform"
      [] F = "deadline" -> "deadline"
      [] F = "budget" -> "budget_range"
      [] F = "features" -> "must_have_features"
      [] F = "deliverables" -> "deliverables"
      [] F = "audience" -> "target_audience"

\* a text turn of the user that reaches the session while it is Collecting
TextTurn(text) ==
    /\ \E t \in ChatIds, typing \in BOOLEAN :
          tasks[t].pc = "typing" /\ tasks[t].user = BotUser /\ tasks[t].text = text
             /\ handle_text_record(t, typing)
    /\ HasSession(sessions, BotUser)
    /\ StatusOf(BotUser) = "collecting"

NewData == heap'[sessions'[BotUser].data]

OnlyChanges(fields) ==
    \A g \in DataFields \ (fields \cup {"raw_messages"}) : NewData[g] = DataOf(BotUser)[g]

\* C6 (SpecText): with the focus on F, the next message of a collecting
\* session is written into the field F names, a scalar field taking the
\* message cut to its cap (1000 characters for the goal, 500 for the
\* audience), and into no other field apart from the raw-message log.
C6_FocusNamesField ==
    [][\A text \in Texts :
          TextTurn(text) /\ sessions[BotUser].current_step \in FillFields \ {"text"} =>
              LET f == FocusField(sessions[BotUser].current_step)
              IN /\ OnlyChanges({f})
                 /\ f \in ScalarFields =>
                        NewData[f] = Take(text, IF f = "project_goal" THEN GoalCap ELSE AudienceCap)
                 /\ f \in ListFields => NewData[f] # DataOf(BotUser)[f]]_vars

\* the entries each message of Texts holds, written out by hand
ExpectedEntries(text) ==
    CASE text = LinesText -> << <<"L", "o", "g", "i", "n">>, <<"S", "i", "g", "n", "u", "p">>, <<"C", "h", "e", "c", "k", "o", "u", "t">> >>
      [] text = CommaText -> << <<"L", "o", "g", "i", "n">>, <<"S", "i", "g", "n", "u", "p">> >>
      [] text = ElevenText -> << <<"a">>, <<"b">>, <<"c">>, <<"d">>, <<"e">>, <<"f">>, <<"g">>, <<"h">>, <<"i">>, <<"j">>, <<"k">> >>
      [] text = LongText -> <<LongText>>

\* C7 (SpecText): with the focus on features or deliverables a message appends
\* to that list, after the entries already there, its entries in message order
\* (non-empty trimmed lines, or the comma-separated parts of a single line), at
\* most 10 of them; nothing is removed, reordered or deduplicated.
C7_ListAppend ==
    [][\A text \in Texts :
          TextTurn(text) /\ sessions[BotUser].current_step \in {"features", "deliverables"} =>
              LET f == FocusField(sessions[BotUser].current_step)
                  new == ExpectedEntries(text)
              IN NewData[f] = DataOf(BotUser)[f] \o SubSeq(new, 1, Min(Len(new), 10))]_vars

\* C8 (SpecAttrs): missingRequired() lists exactly the required fields that are
\* empty, in the order project_goal, project_type, platform, and never a
\* recommended field; with only project_goal empty it is [project_goal].
C8_MissingRequired ==
    \A u \in Users :
        HasSession(sessions, u) =>
            LET d == DataOf(u)
                called == get_missing_required(heap[ClassObj], d)
                m == called.value
            IN /\ called.exc = "none"
               /\ Names(m) = EmptyRequired(d)
               /\ \A i \in 1 .. Len(m) : m[i] = REQUIRED_FIELDS[CHOOSE k \in 1 .. 3 : RequiredNames[k] = m[i][1]]
               /\ d.project_goal = <<>> /\ d.project_type # <<>> /\ d.platform # <<>>
                      => m = << <<"project_goal", "tsel proekta">> >>

RequiredButton(f) ==
    CASE f = "project_goal" -> "fill:goal"
      [] f = "project_type" -> "fill:project_type"
      [] f = "platform" -> "fill:platform"

\* the required fields a generation request of u finds empty: those of the
\* brief of u's session, all of them where u has no session yet
MissingFor(u) == IF HasSession(sessions, u) THEN EmptyRequired(DataOf(u)) ELSE RequiredNames

\* the buttons of a keyboard that name a field to fill; "fill:text" names none
FieldButtons(buttons) == SelectSeq(buttons, LAMBDA b : b # "fill:text")

\* the answer to a generation request is the refusal that lists the fields
\* want and offers a button for each of them and for no other field, and the
\* request has changed neither the session nor its data
RefusedFor(want) ==
    /\ reply'.kind = "missing_fields"
    /\ Names(reply'.missing) = want
    /\ FieldButtons(reply'.buttons) = [i \in 1 .. Len(want) |-> RequiredButton(want[i])]
    /\ UNCHANGED <<sessions, heap, tasks, rendered>>

\* C9 as claimed (Spec): a generation request made while a required field is
\* empty is answered by an ordinary reply that lists exactly the missing
\* required fields and offers exactly those for filling, and changes neither
\* the session nor its data.
C9_RefusalWheneverMissing ==
    [][generate_final_tz(BotUser) /\ MissingFor(BotUser) # <<>> =>
          RefusedFor(MissingFor(BotUser))]_vars

\* C9 as amended (Spec): a generation request made in a collecting session
\* while a required field is empty is answered by an ordinary reply that
\* lists exactly the missing required fields and offers exactly those for
\* filling, and changes neither the session nor its data; a request made
\* outside a collecting session is answered that there is no active brief,
\* names no field, and leaves the session it finds as it is.
C9_Refusal ==
    [][generate_final_tz(BotUser) =>
          IF HasSession(sessions, BotUser) /\ StatusOf(BotUser) = "collecting"
          THEN EmptyRequired(DataOf(BotUser)) # <<>> => RefusedFor(EmptyRequired(DataOf(BotUser)))
          ELSE /\ reply' = Reply("no_active_brief", <<>>, <<>>)
               /\ UNCHANGED <<tasks, rendered>>
               /\ HasSession(sessions, BotUser) => UNCHANGED <<sessions, heap>>]_vars

\* a request was refused for a brief lacking two required fields
C9_Witness ==
    /\ reply.kind = "missing_fields"
    /\ Len(reply.missing) = 2
    /\ StatusOf(BotUser) = "collecting"

\* C10 (SpecGateway): a call makes at most N attempts, and a call that ended with
\* every attempt failing transiently made exactly N attempts and raised exactly
\* one error, the service-unavailable one.
C10_RetryExhaustion ==
    /\ Len(gw.outcomes) <= gw.max_retries
    /\ gw.pc \in {"returned", "raised"} /\ (\A i \in 1 .. Len(gw.outcomes) : gw.outcomes[i] \in Transient)
         => /\ gw.pc = "raised"
            /\ gw.error = "unavailable"
            /\ Len(gw.outcomes) = gw.max_retries
            /\ gw.raised = 1

\* three attempts, rate-limited and disconnected, ended in service unavailable
C10_Witness ==
    /\ gw.pc = "raised"
    /\ gw.error = "unavailable"
    /\ gw.max_retries = API_MAX_RETRIES
    /\ gw.outcomes = <<"RateLimitError", "APIConnectionError", "RateLimitError">>

\* the sum of a sequence of waits
RECURSIVE Sum(_)
Sum(w) == IF w = <<>> THEN 0 ELSE Head(w) + Sum(Tail(w))

\* C11 (SpecGateway): a request that fails with a malformed request, a failed
\* authorization or an exhausted quota is the last attempt of its call: no
\* wait and no attempt follows it and one gateway error is raised; a success
\* is the last attempt too and the call returns.
C11_ImmediateEnd ==
    \A i \in 1 .. Len(gw.results) :
        /\ gw.results[i] \in {"bad_request", "unauthorized", "quota"} =>
              /\ i = Len(gw.results)
              /\ gw.pc = "raised"
              /\ gw.exc = "OpenAIError"
              /\ gw.raised = 1
              /\ Len(gw.waits) = i - 1
        /\ gw.results[i] = "ok" =>
              /\ i = Len(gw.results)
              /\ gw.pc = "returned"
              /\ gw.raised = 0
              /\ Len(gw.waits) = i - 1

\* C12 (SpecGateway): of two calls of which exactly one ended by exhausting its
\* attempts and the other by an immediate failure, the errors raised are of
\* different types.
C12_DistinctErrorTypes ==
    /\ gw.pc = "raised"
    /\ gw.prev.error # "none"
    /\ (gw.error = "unavailable") # (gw.prev.error = "unavailable")
    => gw.exc # gw.prev.exc

\* C13 (SpecGateway): whatever an attempt raised, and in whichever operation, the
\* exception that reaches the caller is the gateway's OpenAIError.
C13_OwnErrorType ==
    /\ gw.pc = "raised" => gw.exc = "OpenAIError"
    /\ gw.pc # "raised" => gw.exc = "none"
    /\ gw.prev.exc \in {"none", "OpenAIError"}

\* a transcription failed with an exception that is no API error
C13_Witness ==
    /\ gw.pc = "raised"
    /\ gw.op = "transcribe_audio"
    /\ gw.outcomes # <<>>
    /\ gw.outcomes[Len(gw.outcomes)] = "Exception"

\* C14 (SpecGateway): the wait after failed attempt k (from 0) is
\* retry_delay * 2^k, and the waits of one call add up to at most
\* N * retry_delay * 2^(N-1).
C14_Backoff ==
    /\ \A k \in 0 .. (Len(gw.waits) - 1) : gw.waits[k + 1] = gw.retry_delay * Pow2(k)
    /\ gw.max_retries >= 1 =>
           Sum(gw.waits) <= gw.max_retries * (gw.retry_delay * Pow2(gw.max_retries - 1))
    /\ gw.max_retries = 0 => gw.waits = <<>>

\* three failed attempts with a base delay of 2 waited 2, 4 and 8
C14_Witness == gw.waits = <<2, 4, 8>>

\* C15 (SpecGatewayLive): a call never makes more than N attempts, and every call
\* that has entered the retry loop ends, by returning or by raising.
C15_CallEnds ==
    /\ [](gw.attempt <= gw.max_retries /\ Len(gw.outcomes) <= gw.max_retries)
    /\ (gw.pc \in {"loop", "sleep"}) ~> (gw.pc \in {"returned", "raised"})

\* a call returned on its last attempt, after two waits
C15_Witness ==
    /\ gw.pc = "returned"
    /\ gw.max_retries = API_MAX_RETRIES
    /\ Len(gw.outcomes) = API_MAX_RETRIES
    /\ Len(gw.waits) = 2

\* how many entries of a sequence of times lie in from .. (to - 1)
CountIn(times, from, to) == Cardinality({i \in 1 .. Len(times) : times[i] >= from /\ times[i] < to})

\* C16 (SpecLimiter): for each user, counting from the last reset(user) if
\* there was one, no window of window_seconds seconds holds more than max
\* admitted checks, and a check is rejected exactly when max checks were
\* already admitted within the last window_seconds seconds; so the check after
\* max admissions is rejected, and a check made once the window has elapsed
\* since them is admitted again.
C16_SlidingWindow ==
    \A u \in Users :
        LET adm == limiter.admitted[u]
            W == limiter.window_seconds
            last == limiter.last[u]
        IN /\ \A i \in 1 .. Len(adm) : CountIn(adm, adm[i], adm[i] + W) <= limiter.max_requests
           /\ last.checked /\ last.allowed =>
                  /\ adm # <<>> /\ adm[Len(adm)] = last.time
                  /\ CountIn(SubSeq(adm, 1, Len(adm) - 1), last.time - W + 1, last.time + 1)
                         < limiter.max_requests
           /\ last.checked /\ ~last.allowed =>
                  CountIn(adm, last.time - W + 1, last.time + 1) >= limiter.max_requests

\* max = 2, window = 2: two checks at time 0 were admitted, and a check at time 2,
\* the window having elapsed, was admitted again
C16_Witness ==
    /\ limiter.max_requests = 2
    /\ limiter.window_seconds = 2
    /\ limiter.admitted["u1"] = <<0, 0, 2>>

\* C17 (SpecLimiter): after a check, the user's stored window holds at most max
\* timestamps, each within the window_seconds before the check, in
\* non-decreasing order; before the first check, and after reset(user) until
\* the next check, it holds none.
C17_WindowInvariant ==
    \A u \in Users :
        LET r == limiter.requests[u]
            last == limiter.last[u]
        IN /\ ~last.checked => r = <<>>
           /\ last.checked =>
                  /\ Len(r) <= limiter.max_requests
                  /\ \A i \in 1 .. Len(r) :
                         r[i] > last.time - limiter.window_seconds /\ r[i] <= last.time
                  /\ \A i \in 1 .. (Len(r) - 1) : r[i] <= r[i + 1]

\* a check pruned an expired timestamp and stored a new one behind a kept one
C17_Witness ==
    /\ limiter.max_requests = 2
    /\ limiter.window_seconds = 2
    /\ limiter.admitted["u1"] = <<0, 1, 2>>
    /\ limiter.requests["u1"] = <<1, 2>>

\* the step belongs to a turn of u whose is_allowed(u) returned True: the
\* check is made in this step, or the step resumes a handle_text, handle_voice
\* or handle_photo coroutine, which stands at an await only after its check
\* has passed
Admitted(u) ==
    \/ Len(limiter'.admitted[u]) = Len(limiter.admitted[u]) + 1
    \/ \E t \in ChatIds \cup MediaIds :
          tasks[t].pc # "free" /\ tasks[t].user = u /\ tasks'[t] # tasks[t]

\* the step changes the brief session of u or its data
MutatesSession(u) ==
    \/ sessions'[u] # sessions[u]
    \/ /\ HasSession(sessions, u) /\ HasSession(sessions', u)
       /\ heap'[sessions'[u].data] # heap[sessions[u].data]

\* the step is a turn of u that sends a request to the gateway
CallsGateway(u) ==
    \E t \in TaskIds : /\ tasks'[t].pc \in {"gateway", "chat", "transcribe", "voice_chat", "analyze", "route_chat"}
                        /\ tasks[t].pc # tasks'[t].pc
                        /\ tasks'[t].user = u

\* C18 (SpecAdmission): every turn that changes the user's brief session or
\* calls the gateway contains an admission check of that user that answered
\* 'allowed'.
C18_AdmissionFirst ==
    [][MutatesSession(BotUser) \/ CallsGateway(BotUser) => Admitted(BotUser)]_vars

\* the chunks each corpus file is cut into, worked out by hand from its text
ExpectedChunks(file, chunk_size) ==
    CASE file = FileA /\ chunk_size = 4 -> <<<<"a", "a">>, <<"b", "b">>>>
      [] file = FileA /\ chunk_size = 8 -> <<<<"a", "a", "\n", "\n", "b", "b">>>>
      [] file = FileB -> <<<<"c", "c">>>>
      [] file = FileL /\ chunk_size = 4 -> <<<<"A", "b", ".">>, <<"C", "d", ".">>, <<"E", "f">>>>
      [] file = FileL /\ chunk_size = 8 -> <<<<"A", "b", ".", " ", "C", "d", ".">>, <<"E", "f">>>>
      [] file = FileP /\ chunk_size = 8 -> <<<<"c", "a", "t", " ", "d", "o", "g">>, <<"c", "a", "t", " ", "c", "a", "t">>, <<"d", "o", "g">>>>
      [] file = FileP /\ chunk_size = 20 -> <<<<"c", "a", "t", " ", "d", "o", "g", "\n", "\n", "c", "a", "t", " ", "c", "a", "t">>, <<"d", "o", "g">>>>
      [] file = FileQ /\ chunk_size = 8 -> <<<<"D", "o", "g", ",", " ", "C", "A", "T", "!">>, <<"i", "t", " ", "i", "s">>>>
      [] file = FileQ /\ chunk_size = 20 -> <<<<"D", "o", "g", ",", " ", "C", "A", "T", "!", "\n", "\n", "i", "t", " ", "i", "s">>>>
      [] file = FileR -> <<FileR.content>>
      [] file = FileS -> <<<<"c", "c">>>>
      [] file = FileU -> <<<<"\\u212a", "\\x01", "\"", "\n", "\\", "\t", "b">>>>
      [] OTHER -> <<>>

\* the entries a file is expected to put into the index: one per chunk, in
\* order, named after the file
ExpectedEntriesOf(file, chunk_size) ==
    LET chunks == ExpectedChunks(file, chunk_size)
    IN [i \in 1 .. Len(chunks) |-> [content |-> chunks[i], source |-> file.name]]

RECURSIVE ExpectedIndex(_, _)
ExpectedIndex(listing, chunk_size) ==
    IF listing = <<>> THEN <<>>
    ELSE ExpectedEntriesOf(Head(listing), chunk_size) \o ExpectedIndex(Tail(listing), chunk_size)

\* the index without the ids of its entries
IndexContents == [i \in 1 .. Len(index.documents) |->
                     [content |-> index.documents[i].content, source |-> index.documents[i].source]]

\* C19 (SpecIndex): after a rebuild has returned, whatever directory it was
\* given, the index holds exactly the chunks of the files of that directory,
\* file after file, each file's chunks in order under the file's name, and
\* nothing an earlier rebuild put there.
C19_RebuildExact ==
    index.result.op = "index_documents" =>
        IndexContents = ExpectedIndex(index.result.listing, index.chunk_size)

\* the entries of the index that come from one file
EntriesFrom(name) == SelectSeq(IndexContents, LAMBDA d : d.source = name)

Failed(file) == lower(splitext(file.name)) \in supported_extensions /\ ~file.readable

\* C20 (SpecIndex): a rebuild of a directory holding a file that cannot be read
\* returns its statistics all the same; every other file of the directory is in
\* the index with its chunks, the failed file has no entry, and the counters
\* count the files that were indexed and their chunks only.
C20_FailedFileSkipped ==
    LET listing == index.result.listing
        files == {i \in 1 .. Len(listing) : ExpectedChunks(listing[i], index.chunk_size) # <<>>}
    IN index.result.op = "index_documents" /\ (\E i \in 1 .. Len(listing) : Failed(listing[i])) =>
          /\ \A i \in 1 .. Len(listing) :
                EntriesFrom(listing[i].name) = ExpectedEntriesOf(listing[i], index.chunk_size)
          /\ \A i \in 1 .. Len(listing) : Failed(listing[i]) => EntriesFrom(listing[i].name) = <<>>
          /\ index.result.files = Cardinality(files)
          /\ index.result.chunks = Len(index.documents)
          /\ Len(index.documents) = Len(ExpectedIndex(listing, index.chunk_size))

\* a rebuild met the unreadable d.txt between a.txt and B.MD and indexed both
C20_Witness ==
    /\ index.result.op = "index_documents"
    /\ index.result.listing = <<FileA, FileD, FileB>>
    /\ index.chunk_size = 4
    /\ index.result.files = 2
    /\ index.result.chunks = 3
    /\ EntriesFrom(FileB.name) # <<>>

\* the non-empty paragraphs of a text, stripped
ParagraphsOf(text) == strip_nonempty(split_on(text, <<"\n", "\n">>))

\* the sentences of a paragraph: its pieces between the ". " marks, each but the
\* last with its full stop
SentencesOf(para) ==
    LET pieces == split_on(para, <<".", " ">>)
    IN [i \in 1 .. Len(pieces) |-> IF i < Len(pieces) THEN pieces[i] \o <<".">> ELSE pieces[i]]

\* the units the chunker may not cut: every paragraph and every sentence
UnitsOf(text) ==
    LET paras == ParagraphsOf(text)
    IN {paras[i] : i \in 1 .. Len(paras)} \cup
       UNION {{SentencesOf(paras[i])[j] : j \in 1 .. Len(SentencesOf(paras[i]))} : i \in 1 .. Len(paras)}

\* C26 (SpecChunker): every chunk of a text is at most chunk_size long, unless
\* it is one whole sentence or one whole paragraph of the text that is longer
\* than chunk_size by itself.
C26_ChunkBound ==
    index.result.op = "_split_text" =>
        \A i \in 1 .. Len(index.result.chunks) :
            \/ Len(index.result.chunks[i]) <= index.chunk_size
            \/ index.result.chunks[i] \in UnitsOf(index.result.text)

RECURSIVE Flatten(_)
Flatten(seqs) == IF seqs = <<>> THEN <<>> ELSE Head(seqs) \o Flatten(Tail(seqs))

\* a text without its white space, which is what separates paragraphs and sentences
Squeeze(text) == SelectSeq(text, LAMBDA c : c \notin Whitespace)

\* C27 (SpecChunker): the chunks of a text, put one after another, are the text
\* itself but for the white space between paragraphs and sentences: nothing is
\* dropped, repeated or reordered.
C27_RoundTrip ==
    index.result.op = "_split_text" =>
        Squeeze(Flatten(index.result.chunks)) = Squeeze(index.result.text)

\* the last call was a search; what it was asked, what it found in the index and
\* what it answered
Searched == index.result.op = "search"
QueryTokens == tokenize(index.result.query)
ScoreOf(i) == calculate_relevance(QueryTokens, index.result.seen[i].content)
Hits == index.result.found.top_docs

\* the words of a text, whatever their length
WordsOf(text) == findall_words(lower(text))

\* the document at place i holds a word of the query that is longer than two letters
SharesToken(i) ==
    \E w \in {WordsOf(index.result.query)[k] : k \in 1 .. Len(WordsOf(index.result.query))} :
        /\ Len(w) > 2
        /\ \E k \in 1 .. Len(WordsOf(index.result.seen[i].content)) :
               WordsOf(index.result.seen[i].content)[k] = w

\* C21 (SpecSearch): a search for k results answers with at most k chunks of
\* the index, each sharing a word with the query and scored above zero, the
\* higher score first and equal scores in the order of the index; no chunk left
\* out scores higher than one that is returned, and none with a score is left
\* out while fewer than k are returned; the index is as it was.
C21_TopK ==
    Searched =>
        /\ Len(Hits) <= index.result.n_results
        /\ \A i \in 1 .. Len(Hits) :
              /\ Hits[i] \in 1 .. Len(index.result.seen)
              /\ score_positive(ScoreOf(Hits[i]))
              /\ SharesToken(Hits[i])
              /\ index.result.found.documents[i] = index.result.seen[Hits[i]].content
              /\ index.result.found.metadatas[i].source = index.result.seen[Hits[i]].source
        /\ \A i, j \in 1 .. Len(Hits) :
              i < j => \/ ScoreLess(ScoreOf(Hits[j]), ScoreOf(Hits[i]))
                       \/ ScoreEqual(ScoreOf(Hits[j]), ScoreOf(Hits[i])) /\ Hits[i] < Hits[j]
        /\ \A p \in 1 .. Len(index.result.seen) :
              (\A i \in 1 .. Len(Hits) : Hits[i] # p) =>
                  /\ \A i \in 1 .. Len(Hits) : ~ScoreLess(ScoreOf(Hits[i]), ScoreOf(p))
                  /\ Len(Hits) < index.result.n_results => ~SharesToken(p)
        /\ Len(index.result.found.documents) = Len(Hits)
        /\ Len(index.result.found.metadatas) = Len(Hits)
        /\ index.documents = index.result.seen

\* "cat dog" asked of the chunks "cat dog", "cat cat", "dog" with k = 2: the
\* first and the third score the same and are returned in that order, ahead of
\* the second
C21_Witness ==
    /\ Searched
    /\ index.result.query = <<"c", "a", "t", " ", "d", "o", "g">>
    /\ index.result.n_results = 2
    /\ Len(index.result.seen) = 3
    /\ Hits = <<1, 3>>
    /\ index.result.found.documents = <<<<"c", "a", "t", " ", "d", "o", "g">>, <<"d", "o", "g">>>>

\* C22 (SpecSearch): a search of an empty index, or with a query whose words
\* all have at most two letters, answers with the empty result, whatever was
\* done to the index before: a rebuild, a clear, a restart on a good or a broken
\* snapshot.
C22_EmptySearch ==
    Searched /\ (index.result.seen = <<>> \/
                 \A k \in 1 .. Len(WordsOf(index.result.query)) : Len(WordsOf(index.result.query)[k]) <= 2)
        => /\ index.result.found.documents = <<>>
           /\ index.result.found.metadatas = <<>>
           /\ index.result.found.distances = <<>>

\* "it is" was asked of an index that holds the chunk "it is"
C22_Witness ==
    /\ Searched
    /\ index.result.query = <<"i", "t", " ", "i", "s">>
    /\ \E i \in 1 .. Len(index.result.seen) : index.result.seen[i].content = <<"i", "t", " ", "i", "s">>
    /\ index.result.found.documents = <<>>

\* C23 (SpecIndex): after a rebuild or a clear has returned, the snapshot file
\* holds the documents the memory holds, so that a restart would load exactly
\* them; after a clear, which answers True, both are empty.
C23_SnapshotIsMemory ==
    index.result.op \in {"index_documents", "clear"} =>
        /\ load_index(index.snapshot) = index.documents
        /\ index.result.op = "clear" => index.result.ok /\ index.documents = <<>>

\* the save could not open the file, or broke off while it wrote
SaveFailed ==
    \/ index.result.save \in {"open_failed", "write_failed"}
    \/ index.result.save = "ok" /\ written_documents(index.documents) # index.documents

\* C24 (SpecIndex): a start on a missing or broken snapshot gives an empty
\* index, and a rebuild or clear whose save fails returns as usual and leaves in
\* memory what it built: the chunks of the scanned files, or nothing after a
\* clear.
C24_ErrorsContained ==
    /\ index.result.op = "_load_index" /\ index.result.snapshot # "ok" => index.documents = <<>>
    /\ index.result.op = "index_documents" /\ SaveFailed =>
          /\ IndexContents = ExpectedIndex(index.result.listing, index.chunk_size)
          /\ index.result.chunks = Len(index.documents)
    /\ index.result.op = "clear" /\ SaveFailed => index.documents = <<>> /\ index.result.ok

\* the process was restarted on a snapshot whose write had broken off with a
\* document in it, while the memory held documents: the index is empty
C24_Witness ==
    /\ index.result.op = "_load_index"
    /\ index.result.snapshot = "corrupt"
    /\ index.snapshot.documents # <<>>
    /\ index.result.held > 0
    /\ index.documents = <<>>

\* the documents a search found in the index, without their ids
SeenContents == [i \in 1 .. Len(index.result.seen) |->
                    [content |-> index.result.seen[i].content, source |-> index.result.seen[i].source]]

\* the indexes a finished rebuild, clear or restart can leave behind
CompleteIndexes == {ExpectedIndex(listing, index.chunk_size) : listing \in SearchListings}

\* C25 (SpecSearch): a search that runs between rebuilds, clears and restarts
\* finds in the index the whole result of a finished rebuild (all chunks of
\* all files of one listing) or an empty index, never the chunks of a part
\* of a listing.
C25_WholeIndexSeen ==
    Searched => SeenContents \in CompleteIndexes

\* a search right after a saved rebuild of a directory with the files q.md,
\* d.txt and p.txt found the chunks of q.md and of p.txt
C25_Witness ==
    /\ Searched /\ index.result.after = "index_documents"
    /\ index.dirs[CorpusDir].listing = <<FileQ, FileD, FileP>>
    /\ SeenContents = ExpectedIndex(<<FileQ, FileD, FileP>>, index.chunk_size)
    /\ index.snapshot.state = "ok" /\ Len(json_load(index.snapshot.documents)) = Len(index.documents)

\* C28 (SpecScore): a chunk to which one more occurrence of a token of the
\* query has been added scores against that query at least what it scored
\* before.
C28_ScoreMonotone ==
    index.result.op = "_calculate_relevance" =>
        ~ScoreLess(index.result.score_more, index.result.score)

\* the utterances with what can be read off them by eye: a keyword in it, a
\* question pattern in it, a question (a "?" or an interrogative word at its
\* start), a word of the vocabulary of briefs in it
TriggerSamples ==
    {[utterance |-> <<"k_", "a_", "k_", " ", "p_", "r_", "a_", "v_", "i_", "l_", "q_", "n_", "o_", " ", "s_", "o_", "s_", "t_", "a_", "v_", "i_", "t_", "q_", " ", "b_", "r_", "i_", "f_", "?">>,
      keyword |-> TRUE, pattern |-> TRUE, question |-> TRUE, reference |-> TRUE],
     [utterance |-> <<"d_", "a_", ",", " ", "p_", "o_", "d_", "h_", "o_", "d_", "i_", "t_">>,
      keyword |-> FALSE, pattern |-> FALSE, question |-> FALSE, reference |-> FALSE],
     [utterance |-> <<"SH", "a_", "b_", "l_", "o_", "n_">>,
      keyword |-> TRUE, pattern |-> FALSE, question |-> FALSE, reference |-> FALSE],
     [utterance |-> <<"ch", "t_", "o_", " ", " ", "d_", "o_", "l_", "zh", "n_", "o_", " ", "b_", "y_", "t_", "q_">>,
      keyword |-> FALSE, pattern |-> TRUE, question |-> TRUE, reference |-> FALSE],
     [utterance |-> <<"k_", "a_", "k_", "o_", "j_", " ", "s_", "r_", "o_", "k_", " ", "u_", " ", "p_", "r_", "o_", "e_", "k_", "t_", "a_", "?">>,
      keyword |-> FALSE, pattern |-> FALSE, question |-> TRUE, reference |-> TRUE],
     [utterance |-> <<"Z_", "a_", "ch", "e_", "m_", " ", "eh", "t_", "o_", "t_", " ", "p_", "r_", "o_", "e_", "k_", "t_">>,
      keyword |-> FALSE, pattern |-> FALSE, question |-> TRUE, reference |-> TRUE],
     [utterance |-> <<"n_", "a_", "sh", " ", "p_", "r_", "o_", "e_", "k_", "t_", " ", "p_", "r_", "o_", " ", "m_", "a_", "g_", "a_", "z_", "i_", "n_">>,
      keyword |-> FALSE, pattern |-> FALSE, question |-> FALSE, reference |-> TRUE],
     [utterance |-> <<"s_", "k_", "o_", "l_", "q_", "k_", "o_", " ", "s_", "t_", "o_", "i_", "t_", "?">>,
      keyword |-> FALSE, pattern |-> FALSE, question |-> TRUE, reference |-> FALSE],
     [utterance |-> <<"k_", "a_", "k_", "a_", "o_", " ", "d_", "l_", "ya", " ", "p_", "r_", "o_", "e_", "k_", "t_", "a_">>,
      keyword |-> FALSE, pattern |-> FALSE, question |-> TRUE, reference |-> TRUE],
     [utterance |-> <<"v_", " ", "ch", "yo", "m_", "\n", "r_", "a_", "z_", "n_", "i_", "c_", "a_">>,
      keyword |-> FALSE, pattern |-> TRUE, question |-> FALSE, reference |-> FALSE],
     [utterance |-> <<"s_", "r_", "o_", "k_", " ", "d_", "v_", "e_", " ", "n_", "e_", "d_", "e_", "l_", "i_">>,
      keyword |-> FALSE, pattern |-> FALSE, question |-> FALSE, reference |-> FALSE],
     [utterance |-> <<"eh", "t_", "o_", " ", "T_", "Z_">>,
      keyword |-> TRUE, pattern |-> FALSE, question |-> FALSE, reference |-> TRUE],
     [utterance |-> <<"R", "e", "d", " ", "F", "l", "a", "g">>,
      keyword |-> TRUE, pattern |-> FALSE, question |-> FALSE, reference |-> FALSE],
     [utterance |-> <<"d_", "o_", "b_", "a_", "v_", "q_", " ", "o_", "p_", "l_", "a_", "t_", "u_", " ", "k_", "a_", "r_", "t_", "o_", "j_">>,
      keyword |-> FALSE, pattern |-> FALSE, question |-> FALSE, reference |-> FALSE],
     [utterance |-> <<"ch", "t_", "o_", "?">>,
      keyword |-> FALSE, pattern |-> FALSE, question |-> TRUE, reference |-> FALSE],
     [utterance |-> <<"c", "h", "e", "c", "\\u212a", "l", "i", "s", "t">>,
      keyword |-> TRUE, pattern |-> FALSE, question |-> FALSE, reference |-> FALSE],
     [utterance |-> <<"\\u1c80", " ", "ch", "yo", "m_", " ", "r_", "a_", "z_", "n_", "i_", "c_", "a_">>,
      keyword |-> FALSE, pattern |-> TRUE, question |-> FALSE, reference |-> FALSE],
     [utterance |-> <<"ch", "t_", "o_", "\\xa0", "t_", "a_", "k_", "o_", "e_">>,
      keyword |-> FALSE, pattern |-> TRUE, question |-> TRUE, reference |-> FALSE],
     [utterance |-> <<"p_", "r_", "o_", "e_", "k_", "t_", " ", "g_", "o_", "t_", "o_", "v_", "\\uff1f">>,
      keyword |-> FALSE, pattern |-> FALSE, question |-> FALSE, reference |-> TRUE],
     [utterance |-> <<"D", "E", "L", "\\u0130", "V", "E", "R", "A", "B", "L", "E">>,
      keyword |-> FALSE, pattern |-> FALSE, question |-> FALSE, reference |-> FALSE]}

\* what an utterance holds, stated over the places of its lower-case form:
\* the word w stands at place p, a letter standing for the characters that
\* are it when case is ignored
StandsAt(text, w, p) ==
    /\ p + Len(w) - 1 <= Len(text)
    /\ \A j \in 1 .. Len(w) : literal_ignore(w[j], text[p + j - 1])

RECURSIVE PatternEnds(_, _, _)
\* the places where the first k parts of a question pattern can end in text,
\* a part standing behind the one before it with white space and nothing else
\* in between
PatternEnds(text, parts, k) ==
    IF k = 1
    THEN {e \in 1 .. Len(text) : \E w \in parts[1] : e >= Len(w) /\ StandsAt(text, w, e - Len(w) + 1)}
    ELSE LET before == PatternEnds(text, parts, k - 1)
         IN {e \in 1 .. Len(text) :
                \E w \in parts[k] : \E b \in before :
                   /\ b < e - Len(w)
                   /\ \A j \in (b + 1) .. (e - Len(w)) : text[j] \in Whitespace
                   /\ StandsAt(text, w, e - Len(w) + 1)}

MatchesPattern(low) ==
    \E k \in 1 .. Len(RAG_PATTERNS) : PatternEnds(low, RAG_PATTERNS[k], Len(RAG_PATTERNS[k])) # {}

\* the word w is a stretch of text
Holds(text, w) == \E p \in 0 .. (Len(text) - Len(w)) : \A j \in 1 .. Len(w) : text[p + j] = w[j]

HoldsKeyword(low) == \E w \in RAG_KEYWORDS : Holds(low, w)

Interrogative(utterance, low) ==
    \/ \E i \in 1 .. Len(utterance) : utterance[i] = "?"
    \/ \E w \in QuestionWords : Len(w) <= Len(low) /\ \A j \in 1 .. Len(w) : low[j] = w[j]

NamesBrief(low) == \E w \in ReferenceWords : Holds(low, w)

Expected(utterance, low) ==
    HoldsKeyword(low) \/ MatchesPattern(low) \/ (Interrogative(utterance, low) /\ NamesBrief(low))

\* what the trigger is expected to answer to each utterance
TriggerTable == [u \in Utterances |-> Expected(u, lower(u))]

ExpectedTrigger(utterance) == TriggerTable[utterance]

\* the text turns whose gateway call is in flight
Asking == {t \in ChatIds : tasks[t].pc = "chat"}

\* C29 (SpecAutoRag): the trigger answers true exactly for the utterances
\* that hold a keyword, or match a question pattern, or are a question and
\* name the vocabulary of briefs; the answer depends on the utterance alone,
\* whatever the sessions, the limiter and the index hold.
C29_TriggerExact ==
    \A t \in Asking :
       /\ tasks[t].triggered <=> ExpectedTrigger(tasks[t].text)
       /\ \A s \in TriggerSamples :
             s.utterance = tasks[t].text =>
                (tasks[t].triggered <=> (s.keyword \/ s.pattern \/ (s.question /\ s.reference)))

\* a question about the project, with no keyword and no pattern, triggered
\* while the index was empty
C29_Witness ==
    \E t \in Asking :
       /\ tasks[t].triggered /\ tasks[t].chunks = 0
       /\ \E s \in TriggerSamples :
             s.utterance = tasks[t].text /\ ~s.keyword /\ ~s.pattern /\ s.question /\ s.reference

InPrompt(t, text) == str_in(text, tasks[t].system_prompt)

\* C30 (SpecAutoRag): a text turn asks the index only when the trigger is
\* positive for the utterance and the index holds chunks; the prompt of the
\* turn's gateway call carries the heading and the retrieved text only then,
\* and after a negative trigger it carries neither.
C30_RetrievalGated ==
    \A t \in Asking :
       /\ tasks[t].searched <=> (ExpectedTrigger(tasks[t].text) /\ tasks[t].chunks > 0)
       /\ InPrompt(t, KnowledgeHeader) => tasks[t].searched /\ InPrompt(t, tasks[t].rag_context.text)
       /\ ~tasks[t].searched => tasks[t].rag_context = NoContext
       /\ ~ExpectedTrigger(tasks[t].text) =>
             ~InPrompt(t, KnowledgeHeader) /\ ~InPrompt(t, FileK.content)

\* a triggered turn over a filled index whose prompt carries the chunk of k.md
C30_Witness ==
    \E t \in Asking :
       /\ tasks[t].searched /\ tasks[t].chunks > 0
       /\ InPrompt(t, KnowledgeHeader) /\ InPrompt(t, FileK.content)

\* the seven fields counted for the percentage, and those of them that block
SevenFields == <<"project_goal", "project_type", "platform", "deadline", "budget_range",
                "deliverables", "must_have_features">>
ThreeRequired == {"project_goal", "project_type", "platform"}

FilledCount(u) == Cardinality({i \in 1 .. 7 : DataOf(u)[SevenFields[i]] # <<>>})

\* C32 (SpecPercent): the completion percent is the whole part of
\* 100 * filled / 7 over the three required and four recommended fields, lies
\* in 0..100, is 100 exactly when all seven are filled, and the recommended
\* fields decide neither the missing required fields nor validity.
C32_CompletionPercent ==
    lastOp.op = "get_completion_percent" =>
        LET u == lastOp.user
            p == lastOp.percent.value
            missing_required == lastOp.missing_required.value
        IN /\ lastOp.percent.exc = "none" /\ lastOp.missing_required.exc = "none"
           /\ p \in 0 .. 100
           /\ 7 * p <= 100 * FilledCount(u) /\ 100 * FilledCount(u) < 7 * (p + 1)
           /\ p = 100 <=> FilledCount(u) = 7
           /\ {missing_required[i][1] : i \in 1 .. Len(missing_required)}
                 = {f \in ThreeRequired : DataOf(u)[f] = <<>>}
           /\ lastOp.valid.exc = "none"
           /\ lastOp.valid.value = (\A f \in ThreeRequired : DataOf(u)[f] # <<>>)

\* C33 (SpecGateway): a call that has used up its N >= 1 attempts and raised
\* 'service unavailable' has waited N - 1 times, once between each two
\* attempts and not after the last one.
C33_WaitsBetweenAttempts ==
    gw.pc = "raised" /\ gw.error = "unavailable" /\ gw.max_retries >= 1 =>
        Len(gw.waits) = gw.max_retries - 1

\* the user's last check was made just now and was rejected
RejectedNow(u) == limiter.last[u].checked /\ ~limiter.last[u].allowed /\ limiter.last[u].time = now

\* C39 (SpecLimiter): the stored window holds the times of admitted checks
\* only (those since the last reset(user), if there was one); and after a
\* rejection, whatever was rejected before it, the user is
\* admitted at the moment the oldest of the last max admitted checks is
\* window_seconds old, not earlier, and that is the wait get_reset_time names.
C39_RejectionsLeaveNoTrace ==
    \A u \in Users :
        LET adm == limiter.admitted[u]
            W == limiter.window_seconds
        IN /\ limiter.last[u].checked =>
                 limiter.requests[u] = SelectSeq(adm, LAMBDA t : t > limiter.last[u].time - W)
           /\ RejectedNow(u) =>
                 LET oldest == adm[Len(adm) - limiter.max_requests + 1]
                 IN /\ is_allowed(limiter, u, oldest + W).allowed
                    /\ \A t \in now .. (oldest + W - 1) : ~is_allowed(limiter, u, t).allowed
                    /\ get_reset_time(limiter, u, now) = oldest + W - now

\* max = 1, window = 2: admitted at time 0, rejected at time 1
C39_Witness ==
    /\ limiter.max_requests = 1 /\ limiter.window_seconds = 2
    /\ RejectedNow("u1") /\ now = 1 /\ limiter.admitted["u1"] = <<0>>

\* the step changes the session of u, its brief (the object itself or the
\* lists it reads through its class) or its rate window
Touched(u) ==
    \/ sessions'[u] # sessions[u]
    \/ /\ HasSession(sessions, u) /\ HasSession(sessions', u)
       /\ \/ heap'[sessions'[u].data] # heap[sessions[u].data]
          \/ heap'[ClassObj] # heap[ClassObj]
    \/ limiter'.requests[u] # limiter.requests[u]

\* the step is an operation made for u: a registry operation or a check
MadeFor(u) ==
    \/ lastOp' # lastOp /\ lastOp'.user = u
    \/ limiter'.last[u] # limiter.last[u]
    \/ limiter'.admitted[u] # limiter.admitted[u]

\* C31 (SpecUsers): no two sessions hold the same BriefData object, and an
\* operation or admission check made for one user leaves the session, the
\* brief (status, step, scalar and list fields, raw messages, and the lists
\* the brief is read through) and the rate window of the other user as they
\* were.
C31_UsersIsolated ==
    /\ [](\A a, b \in Users :
             a # b /\ HasSession(sessions, a) /\ HasSession(sessions, b)
                => /\ sessions[a].data # sessions[b].data
                   /\ \A f \in DOMAIN DataOf(a).refs, g \in DOMAIN DataOf(b).refs :
                         DataOf(a).refs[f] # DataOf(b).refs[g])
    /\ [][\A a, b \in Users : a # b /\ MadeFor(a) => ~Touched(b)]_vars
    /\ [][Cardinality({u \in Users : Touched(u)}) <= 1]_vars

\* C35 (Spec): a session whose status is idle holds an empty brief: every
\* scalar field and every list field of its BriefData is empty.
C35_IdleIsEmpty ==
    \A u \in Users : HasSession(sessions, u) /\ StatusOf(u) = "idle" => DataOf(u) = BriefData

\* C36 (SpecApi): a session whose status is ready has none of project_goal,
\* project_type and platform empty.
C36_ReadyIsComplete ==
    \A u \in Users :
        HasSession(sessions, u) /\ StatusOf(u) = "ready" =>
            /\ DataOf(u).project_goal # <<>>
            /\ DataOf(u).project_type # <<>>
            /\ DataOf(u).platform # <<>>

\* a turn of u with text that the admission check or the length check refuses
Refused(u, text) ==
    /\ ~IsCommand(text)
    /\ ~is_allowed(limiter, u, now).allowed \/ Len(text) > MAX_INPUT_LENGTH

\* C34 (SpecTurn): a text turn refused by the admission check or by the
\* length check changes no session, no brief, no conversation history and
\* no index, and suspends no coroutine at the gateway (so neither a search
\* nor a gateway call was made for it); it only answers with the refusal.
C34_RefusedTurnHasNoEffect ==
    [][\A u \in Users, text \in TurnTexts :
          handle_text(u, text) /\ Refused(u, text) =>
              /\ UNCHANGED <<sessions, heap, states, tasks, index>>
              /\ reply'.kind \in {"rate_limited", "too_long"}]_vars

\* a turn was just refused for being too long, in a collecting session with
\* a raw log, a history and an indexed knowledge base it could have touched
C34_Witness ==
    /\ reply.kind = "too_long"
    /\ HasSession(sessions, BotUser) /\ StatusOf(BotUser) = "collecting"
    /\ DataOf(BotUser).raw_messages # <<>>
    /\ get_history(states, BotUser) # <<>>
    /\ has_knowledge_base(index)

\* the user message and the assistant reply of one exchange
Exchange(text, response) ==
    <<[role |-> "user", content |-> text], [role |-> "assistant", content |-> response]>>

\* the history is a sequence of exchanges: a user message, then a reply
Paired(h) ==
    /\ Len(h) % 2 = 0
    /\ \A i \in 1 .. Len(h) : h[i].role = (IF i % 2 = 1 THEN "user" ELSE "assistant")

UserFields == DataFields \ {"risks", "open_questions"}

\* the session of u and the user-filled fields of its brief are left as they are
SessionKept(u) ==
    /\ sessions'[u] = sessions[u]
    /\ \A f \in UserFields : DataOf(u)'[f] = DataOf(u)[f]

\* C37 (Spec): of the steps of a generation only the one after the document
\* was rendered and sent resets the user's session to idle with an empty
\* brief; a failed gateway call, a failed rendering and a failed sending each
\* leave the session, its focus and its user-filled fields as they were.
C37_ResetOnlyAfterDelivery ==
    [][\A t \in GenIds, u \in Users :
          tasks[t].pc # "free" /\ tasks[t].user = u =>
             /\ GenGatewayFailed(t) => SessionKept(u)
             /\ GenRender(t, FALSE, <<>>, <<>>, TRUE) => SessionKept(u)
             /\ GenRender(t, TRUE, <<Risk>>, <<>>, FALSE) => SessionKept(u)
             /\ GenRender(t, TRUE, <<Risk>>, <<>>, TRUE) => SessionKept(u)
             /\ GenPreview(t) => SessionKept(u)
             /\ GenDocument(t, FALSE) => SessionKept(u)
             /\ GenDocument(t, TRUE) => SessionKept(u)
             /\ GenFinish(t, FALSE) => SessionKept(u)
             /\ GenFinish(t, TRUE) => StatusOf(u)' = "idle" /\ DataOf(u)' = BriefData]_vars

\* the gateway call of a generation just failed and the session is still
\* collecting with its required fields filled: the request can be repeated
C37_Witness ==
    /\ reply.kind = "generation_error"
    /\ HasSession(sessions, BotUser) /\ StatusOf(BotUser) = "collecting"
    /\ get_missing_required(heap[ClassObj], DataOf(BotUser)) = Returns(<<>>)
    /\ tasks = [t \in TaskIds |-> NoTask]

\* C40 (Spec): when a generation finishes for a user whose session was
\* started anew since the generation captured its brief, the new session
\* and its brief are left as they are.
C40_NewSessionSurvives ==
    [][\A t \in GenIds, u \in Users, sent \in BOOLEAN :
          /\ tasks[t].pc = "document" /\ tasks[t].user = u
          /\ StatusOf(u) = "collecting" /\ sessions[u].data # tasks[t].brief_data
          /\ GenFinish(t, sent)
          => sessions'[u] = sessions[u] /\ DataOf(u)' = DataOf(u)]_vars

====
